---- MODULE Spec2Model ----
(***************************************************************************)
(* Model of the analysis core of the AngelScript language server:          *)
(*   - server/src/compile/parser.ts      (recursive-descent parser)        *)
(*   - server/src/compile/symbolic.ts    (symbol maps, scopes, templates)  *)
(*   - server/src/compile/tokenReserves.ts (reserved-word registry)        *)
(*                                                                         *)
(* The parser's productions are functions of the ReadingState (token list, *)
(* cursor), the diagnostics collector and the tokens' highlight fields.    *)
(* Each production is an operator from a reading record to a pair          *)
(* [ret, rs]: the returned value and the reading record after the call.    *)
(***************************************************************************)
EXTENDS Integers, Sequences, FiniteSets, TLC

VARIABLES
    tokens,       \* ReadingState.tokens: sequence of [kind, text, highlight]
    pos,          \* ReadingState.pos (0-based cursor)
    diagnostics,  \* the diagnostics collector: sequence of [location, message]
    diverged,     \* TRUE when the last call recursed or looped without end
    called,       \* name of the function called last
    result,       \* what that call returned
    entryPos,     \* cursor position when the production was called
    attempts,     \* the iterations the parser's loops made during the call
    farthest,     \* the highest position the cursor has had
    confirms,     \* the calls of confirm: cursor position and token written
    symbolObjects,     \* the SymbolicObject instances, by object id
    scopes,            \* the SymbolScope instances, by object id
    insertLog,         \* the insertSymbolicObject calls made so far, in order
    lookup,            \* what the symbol lookups returned, per scope and identifier
    templateTranslate, \* argument of resolveTemplateTypes: list of maps
    templateType,      \* argument of resolveTemplateType(s): the type
    reservedWordProperties, \* the ReservedWordProperty records, by reserved word
    args,              \* the arguments of the call made last
    builtinTypes,      \* the builtin SymbolicType objects, by id
    runs,              \* the analysis runs: tokens, symbol objects, scopes of each
    builtinLog,        \* the calls of tryGetBuiltInType made so far
    actor,             \* the run that made the last call (0: none)
    operations         \* the number of calls the runs made

parserVars == <<tokens, pos, entryPos, attempts, farthest, confirms>>

symbolVars == <<symbolObjects, scopes, insertLog, lookup>>

templateVars == <<templateTranslate, templateType>>

registryVars == <<reservedWordProperties, args>>

runVars == <<builtinTypes, runs, builtinLog, actor, operations>>

vars == <<tokens, pos, diagnostics, diverged, called, result, entryPos, attempts,
          farthest, confirms,
          symbolObjects, scopes, insertLog, lookup, templateTranslate, templateType,
          reservedWordProperties, args, builtinTypes, runs, builtinLog, actor,
          operations>>

----------------------------------------------------------------------------
(* Bounds of the model *)

\* longest token list that is enumerated exhaustively
MaxLen == 3

----------------------------------------------------------------------------
(* Tokens *)

Reserved(text) == [kind |-> "reserved", text |-> text, highlight |-> "unset"]

Identifier(text) == [kind |-> "identifier", text |-> text, highlight |-> "unset"]

Number(text) == [kind |-> "number", text |-> text, highlight |-> "unset"]

----------------------------------------------------------------------------
(* Values returned by the productions *)

Null == [nodeName |-> "null"]

Mismatch == [nodeName |-> "mismatch"]

Pending == [nodeName |-> "pending"]

\* a reference to the token object at (1-based) index i of the token list
TokenRef(i) == [nodeName |-> "token", index |-> i]

R(ret, rs) == [ret |-> ret, rs |-> rs]

NodeDATATYPE(identifier) == [nodeName |-> "DATATYPE", identifier |-> identifier]

NodeTYPE(datatype) ==
    [nodeName |-> "TYPE", isConst |-> FALSE, scope |-> Null, datatype |-> datatype,
     generics |-> <<>>, isArray |-> FALSE, isRef |-> FALSE]

NodeEXPRTERM2(pre, exprvalue, stop) ==
    [nodeName |-> "EXPRTERM2", pre |-> pre, exprvalue |-> exprvalue, stop |-> stop]

NodeEXPR(exprterm, exprop, tail) ==
    [nodeName |-> "EXPR", exprterm |-> exprterm, exprop |-> exprop, tail |-> tail]

NodeCONDITION(expr) ==
    [nodeName |-> "CONDITION", expr |-> expr, ta |-> Null, fa |-> Null]

NodeASSIGN(condition, op, assign) ==
    [nodeName |-> "ASSIGN", condition |-> condition, op |-> op, assign |-> assign]

NodeRETURN(assign) == [nodeName |-> "RETURN", assign |-> assign]

NodeFOR == [nodeName |-> "FOR"]

NodeWHILE(assign, statement) ==
    [nodeName |-> "WHILE", assign |-> assign, statement |-> statement]

NodeIF(assign, ts, fs) == [nodeName |-> "IF", assign |-> assign, ts |-> ts, fs |-> fs]

NodeVAR(type, identifier, expr) ==
    [nodeName |-> "VAR", type |-> type, identifier |-> identifier, expr |-> expr]

NodeFunc(ret, identifier, paramlist, statblock) ==
    [nodeName |-> "Func", entity |-> <<>>, accessor |-> Null, ret |-> ret, ref |-> Null,
     identifier |-> identifier, paramlist |-> paramlist, isConst |-> FALSE,
     funcattr |-> Null, statblock |-> statblock]

NodeScript(funcs) == [nodeName |-> "Script", funcs |-> funcs]

----------------------------------------------------------------------------
(* ReadingState *)

isEnd(s) == s.pos >= Len(s.tokens)

\* 1-based index of the token next() returns: the last token at or past the end
nextIndex(s) == IF s.pos >= Len(s.tokens) THEN Len(s.tokens) ELSE s.pos + 1

next(s) == s.tokens[nextIndex(s)]

\* pos++; farthest keeps the highest position the cursor has had
step(s) ==
    [s EXCEPT !.pos = @ + 1,
              !.farthest = IF s.pos + 1 > @ THEN s.pos + 1 ELSE @]

\* confirms keeps where the cursor was and which token was written
confirm(s, analyzeToken) ==
    step([s EXCEPT !.tokens[nextIndex(s)].highlight = analyzeToken,
                   !.confirms = Append(@, [pos |-> s.pos, index |-> nextIndex(s),
                                           before |-> next(s).highlight])])

addError(s, message) ==
    [s EXCEPT !.diagnostics =
        Append(@, [location |-> nextIndex(s), message |-> message])]

expect(s, word, analyzeToken) ==
    IF isEnd(s) THEN R(FALSE, addError(s, "Unexpected end of file"))
    ELSE IF next(s).kind # "reserved" THEN R(FALSE, addError(s, "Expected reserved word"))
    ELSE IF next(s).text # word THEN R(FALSE, addError(s, "Expected reserved word " \o word))
    ELSE R(TRUE, confirm(s, analyzeToken))

----------------------------------------------------------------------------
(* The call stack of the recursive productions.  A production that is      *)
(* entered with the cursor at or past the end while a call of the same     *)
(* production, also entered at or past the end, is still active sees       *)
(* exactly what that outer call saw (isEnd() is true and next() is the     *)
(* last token for every such position), so it makes the same nested call   *)
(* again: the recursion never returns.  s.active holds the productions     *)
(* active on the stack that were entered at or past the end.               *)

Recurs(s, production) == isEnd(s) /\ production \in s.active

Enter(s, production) ==
    IF isEnd(s) THEN [s EXCEPT !.active = @ \cup {production}] ELSE s

\* return ret from a call that was entered in reading state s0
Return(ret, rs, s0) == R(ret, [rs EXCEPT !.active = s0.active])

Diverge(s) == R(Null, [s EXCEPT !.diverged = TRUE])

\* one iteration of a loop that goes round again: it began in reading state
\* s0, its productions left the cursor at left, and the following iteration
\* begins in reading state to.  The record is kept in to.attempts
Iterated(loop, s0, left, produced, to) ==
    [to EXCEPT !.attempts =
        Append(@, [loop |-> loop, from |-> s0.pos, left |-> left.pos,
                   to |-> to.pos, produced |-> produced])]

----------------------------------------------------------------------------
(* Expressions *)

\* the candidates of parseEXPROP without the bit operators
ExprOpCandidates_withoutBitOps ==
    {"+", "-", "*", "/", "%", "**",
     "==", "!=", "<", "<=", ">", ">=", "is",
     "&&", "||", "^^", "and", "or", "xor"}

ExprOpCandidates ==
    {"+", "-", "*", "/", "%", "**",
     "==", "!=", "<", "<=", ">", ">=", "is",
     "&&", "||", "^^", "and", "or", "xor",
     "&", "|", "^", "<<", ">>", ">>>"}

parseEXPROP(s) ==
    IF next(s).text \notin ExprOpCandidates THEN R(Null, s)
    ELSE R(TokenRef(nextIndex(s)), confirm(s, "Operator"))

AssignOpCandidates ==
    {"=", "+=", "-=", "*=", "/=", "|=", "&=", "^=", "%=", "**=", "<<=", ">>=", ">>>="}

parseASSIGNOP(s) ==
    IF next(s).text \notin AssignOpCandidates THEN R(Null, s)
    ELSE R(TokenRef(nextIndex(s)), confirm(s, "Operator"))

parseEXPRVALUE(s) ==
    IF next(s).kind = "reserved"
    THEN R(Null, addError(s, "Expected expression value"))
    ELSE R(TokenRef(nextIndex(s)), step(s))

preops == {"-", "+", "!", "++", "--", "~", "@"}

opstops == {".", "[", "(", "++", "--"}

parseEXPRTERM2(s) ==
    LET hasPre == next(s).text \in preops
        pre == IF hasPre THEN TokenRef(nextIndex(s)) ELSE Null
        afterValue(exprvalue) ==
            IF exprvalue.ret = Null THEN R(Null, exprvalue.rs)
            ELSE IF next(exprvalue.rs).text \in opstops
            THEN R(NodeEXPRTERM2(pre, exprvalue.ret, TokenRef(nextIndex(exprvalue.rs))),
                   confirm(exprvalue.rs, "Operator"))
            ELSE R(NodeEXPRTERM2(pre, exprvalue.ret, Null), exprvalue.rs)
    IN  afterValue(parseEXPRVALUE(IF hasPre THEN confirm(s, "Operator") ELSE s))

parseEXPRTERM(s) ==
    LET afterTerm2(exprterm2) ==
            IF exprterm2.ret # Null THEN exprterm2 ELSE R(Null, exprterm2.rs)
    IN  afterTerm2(parseEXPRTERM2(s))

RECURSIVE parseEXPR(_)
parseEXPR(s) ==
    LET afterTail(exprterm, exprop, tail) ==
            Return(NodeEXPR(exprterm.ret, exprop.ret, tail.ret), tail.rs, s)
        afterOp(exprterm, exprop) ==
            IF exprop.ret = Null
            THEN Return(NodeEXPR(exprterm.ret, Null, Null), exprop.rs, s)
            ELSE afterTail(exprterm, exprop, parseEXPR(exprop.rs))
        afterTerm(exprterm) ==
            IF exprterm.ret = Null THEN Return(Null, exprterm.rs, s)
            ELSE afterOp(exprterm, parseEXPROP(exprterm.rs))
    IN  IF Recurs(s, "parseEXPR") THEN Diverge(s)
        ELSE afterTerm(parseEXPRTERM(Enter(s, "parseEXPR")))

parseCONDITION(s) ==
    LET afterExpr(expr) ==
            IF expr.ret = Null THEN R(Null, expr.rs)
            ELSE R(NodeCONDITION(expr.ret), expr.rs)
    IN  afterExpr(parseEXPR(s))

RECURSIVE parseASSIGN(_)
parseASSIGN(s) ==
    LET afterAssign(condition, op, assign) ==
            Return(NodeASSIGN(condition.ret, op.ret, assign.ret), assign.rs, s)
        afterOp(condition, op) ==
            IF op.ret = Null
            THEN Return(NodeASSIGN(condition.ret, Null, Null), op.rs, s)
            ELSE afterAssign(condition, op, parseASSIGN(op.rs))
        afterCondition(condition) ==
            IF condition.ret = Null THEN Return(Null, condition.rs, s)
            ELSE afterOp(condition, parseASSIGNOP(condition.rs))
    IN  IF Recurs(s, "parseASSIGN") THEN Diverge(s)
        ELSE afterCondition(parseCONDITION(Enter(s, "parseASSIGN")))

----------------------------------------------------------------------------
(* Statements *)

parseRETURN(s) ==
    LET afterAssign(assign) ==
            IF assign.ret = Null THEN R(Pending, assign.rs)
            ELSE R(NodeRETURN(assign.ret), expect(assign.rs, ";", "Operator").rs)
    IN  IF next(s).text # "return" THEN R(Mismatch, s)
        ELSE afterAssign(parseASSIGN(step(s)))

parseFOR(s) ==
    IF next(s).text # "for" THEN R(Mismatch, s)
    ELSE R(NodeFOR, step(s))

RECURSIVE parseSTATEMENT(_)

parseWHILE(s) ==
    LET afterStatement(assign, statement) ==
            IF statement.ret = Mismatch \/ statement.ret = Pending
            THEN R(Pending, statement.rs)
            ELSE R(NodeWHILE(assign.ret, statement.ret), statement.rs)
        afterAssign(assign) ==
            IF assign.ret = Null THEN R(Pending, assign.rs)
            ELSE afterStatement(assign,
                    parseSTATEMENT(expect(assign.rs, ")", "Operator").rs))
    IN  IF next(s).text # "while" THEN R(Mismatch, s)
        ELSE afterAssign(parseASSIGN(expect(step(s), "(", "Operator").rs))

\* parseIF with a failed consequent degraded to an If node without branches
parseIF_keepsCondition(s) ==
    LET afterElse(assign, ts, fs) ==
            IF fs.ret = Mismatch \/ fs.ret = Pending
            THEN R(NodeIF(assign.ret, ts.ret, Null), fs.rs)
            ELSE R(NodeIF(assign.ret, ts.ret, fs.ret), fs.rs)
        afterStatement(assign, ts) ==
            IF ts.ret = Mismatch \/ ts.ret = Pending
            THEN R(NodeIF(assign.ret, Null, Null), ts.rs)
            ELSE IF next(ts.rs).text = "else"
            THEN afterElse(assign, ts, parseSTATEMENT(ts.rs))
            ELSE R(NodeIF(assign.ret, ts.ret, Null), ts.rs)
        afterAssign(assign) ==
            IF assign.ret = Null THEN R(Pending, assign.rs)
            ELSE afterStatement(assign,
                    parseSTATEMENT(expect(assign.rs, ")", "Operator").rs))
    IN  IF next(s).text # "if" THEN R(Mismatch, s)
        ELSE afterAssign(parseASSIGN(expect(step(s), "(", "Operator").rs))

\* parseIF that puts the cursor back where it was called when it gives up
parseIF_backtracks(s) ==
    LET afterElse(assign, ts, fs) ==
            IF fs.ret = Mismatch \/ fs.ret = Pending
            THEN R(NodeIF(assign.ret, ts.ret, Null), fs.rs)
            ELSE R(NodeIF(assign.ret, ts.ret, fs.ret), fs.rs)
        afterStatement(assign, ts) ==
            IF ts.ret = Mismatch \/ ts.ret = Pending
            THEN R(Pending, [ts.rs EXCEPT !.pos = s.pos])
            ELSE IF next(ts.rs).text = "else"
            THEN afterElse(assign, ts, parseSTATEMENT(ts.rs))
            ELSE R(NodeIF(assign.ret, ts.ret, Null), ts.rs)
        afterAssign(assign) ==
            IF assign.ret = Null THEN R(Pending, [assign.rs EXCEPT !.pos = s.pos])
            ELSE afterStatement(assign,
                    parseSTATEMENT(expect(assign.rs, ")", "Operator").rs))
    IN  IF next(s).text # "if" THEN R(Mismatch, s)
        ELSE afterAssign(parseASSIGN(expect(step(s), "(", "Operator").rs))

parseIF(s) ==
    LET afterElse(assign, ts, fs) ==
            IF fs.ret = Mismatch \/ fs.ret = Pending
            THEN R(NodeIF(assign.ret, ts.ret, Null), fs.rs)
            ELSE R(NodeIF(assign.ret, ts.ret, fs.ret), fs.rs)
        afterStatement(assign, ts) ==
            IF ts.ret = Mismatch \/ ts.ret = Pending THEN R(Pending, ts.rs)
            ELSE IF next(ts.rs).text = "else"
            THEN afterElse(assign, ts, parseSTATEMENT(ts.rs))
            ELSE R(NodeIF(assign.ret, ts.ret, Null), ts.rs)
        afterAssign(assign) ==
            IF assign.ret = Null THEN R(Pending, assign.rs)
            ELSE afterStatement(assign,
                    parseSTATEMENT(expect(assign.rs, ")", "Operator").rs))
    IN  IF next(s).text # "if" THEN R(Mismatch, s)
        ELSE afterAssign(parseASSIGN(expect(step(s), "(", "Operator").rs))

parseSTATEMENT(s) ==
    LET afterReturn(return_) ==
            IF return_.ret = Pending THEN Return(Pending, return_.rs, s)
            ELSE IF return_.ret.nodeName = "RETURN"
            THEN Return(return_.ret, return_.rs, s)
            ELSE Return(Mismatch, return_.rs, s)
        afterWhile(while_) ==
            IF while_.ret = Pending THEN Return(Pending, while_.rs, s)
            ELSE IF while_.ret.nodeName = "WHILE"
            THEN Return(while_.ret, while_.rs, s)
            ELSE afterReturn(parseRETURN(while_.rs))
        afterFor(for_) ==
            IF for_.ret = Pending THEN Return(Pending, for_.rs, s)
            ELSE afterWhile(parseWHILE(for_.rs))
        afterIf(if_) ==
            IF if_.ret = Pending THEN Return(Pending, if_.rs, s)
            ELSE IF if_.ret.nodeName = "IF" THEN Return(if_.ret, if_.rs, s)
            ELSE afterFor(parseFOR(if_.rs))
    IN  IF Recurs(s, "parseSTATEMENT") THEN Diverge(s)
        ELSE afterIf(parseIF(Enter(s, "parseSTATEMENT")))

----------------------------------------------------------------------------
(* Types, declarations, blocks *)

parseDATATYPE(s) ==
    IF next(s).kind = "identifier"
    THEN R(NodeDATATYPE(TokenRef(nextIndex(s))), confirm(s, "Type"))
    ELSE R(NodeDATATYPE(TokenRef(nextIndex(s))), confirm(s, "Builtin"))

parseTYPE(s) ==
    LET afterDatatype(datatype) ==
            IF datatype.ret = Null THEN R(Null, datatype.rs)
            ELSE R(NodeTYPE(datatype.ret), datatype.rs)
    IN  afterDatatype(parseDATATYPE(s))

parseVAR(s) ==
    LET afterExpr(type, identifier, expr) ==
            IF expr.ret = Null THEN R(Null, addError(expr.rs, "Expected expression"))
            ELSE R(NodeVAR(type.ret, identifier, expr.ret),
                   expect(expr.rs, ";", "Operator").rs)
        afterType(type) ==
            IF type.ret = Null THEN R(Null, addError(type.rs, "Expected type"))
            ELSE afterExpr(type, TokenRef(nextIndex(type.rs)),
                    parseEXPR(expect(confirm(type.rs, "Variable"), "=", "Operator").rs))
    IN  afterType(parseTYPE(s))

\* the loop of parseSTATBLOCK retrying where a pending statement stopped,
\* without the step() that skips a token
RECURSIVE parseSTATBLOCK_loop_retriesInPlace(_, _)
parseSTATBLOCK_loop_retriesInPlace(s, statements) ==
    LET afterVar(var_) ==
            IF var_.ret # Null
            THEN parseSTATBLOCK_loop_retriesInPlace(
                    Iterated("parseSTATBLOCK", s, var_.rs, TRUE, var_.rs),
                    Append(statements, var_.ret))
            ELSE parseSTATBLOCK_loop_retriesInPlace(
                    Iterated("parseSTATBLOCK", s, var_.rs, FALSE, step(var_.rs)),
                    statements)
        afterStatement(statement) ==
            IF statement.ret = Pending
            THEN parseSTATBLOCK_loop_retriesInPlace(
                    Iterated("parseSTATBLOCK", s, statement.rs, FALSE, statement.rs),
                    statements)
            ELSE IF statement.ret # Mismatch
            THEN parseSTATBLOCK_loop_retriesInPlace(
                    Iterated("parseSTATBLOCK", s, statement.rs, TRUE, statement.rs),
                    Append(statements, statement.ret))
            ELSE afterVar(parseVAR(statement.rs))
    IN  IF isEnd(s) THEN R(statements, s)
        ELSE IF next(s).text = "}" THEN R(statements, s)
        ELSE afterStatement(parseSTATEMENT(s))

\* the while loop of parseSTATBLOCK, one iteration per unfolding
RECURSIVE parseSTATBLOCK_loop(_, _)
parseSTATBLOCK_loop(s, statements) ==
    LET afterVar(var_) ==
            IF var_.ret # Null
            THEN parseSTATBLOCK_loop(
                    Iterated("parseSTATBLOCK", s, var_.rs, TRUE, var_.rs),
                    Append(statements, var_.ret))
            ELSE parseSTATBLOCK_loop(
                    Iterated("parseSTATBLOCK", s, var_.rs, FALSE, step(var_.rs)),
                    statements)
        afterStatement(statement) ==
            IF statement.ret = Pending
            THEN parseSTATBLOCK_loop(
                    Iterated("parseSTATBLOCK", s, statement.rs, FALSE,
                             step(statement.rs)),
                    statements)
            ELSE IF statement.ret # Mismatch
            THEN parseSTATBLOCK_loop(
                    Iterated("parseSTATBLOCK", s, statement.rs, TRUE, statement.rs),
                    Append(statements, statement.ret))
            ELSE afterVar(parseVAR(statement.rs))
    IN  IF isEnd(s) THEN R(statements, s)
        ELSE IF next(s).text = "}" THEN R(statements, s)
        ELSE afterStatement(parseSTATEMENT(s))

parseSTATBLOCK(s) ==
    LET afterLoop(body) == R(body.ret, expect(body.rs, "}", "Keyword").rs)
    IN  afterLoop(parseSTATBLOCK_loop(expect(s, "{", "Keyword").rs, <<>>))

\* the loop of parsePARAMLIST leaving after the first parameter, the comma
\* not handled
RECURSIVE parsePARAMLIST_loop_oneParameter(_, _)
parsePARAMLIST_loop_oneParameter(s, params) ==
    LET afterType(type) ==
            IF type.ret = Null THEN R(params, type.rs)
            ELSE IF next(type.rs).kind = "identifier"
            THEN parsePARAMLIST_loop_oneParameter(step(type.rs),
                    Append(params, <<type.ret, TokenRef(nextIndex(type.rs))>>))
            ELSE parsePARAMLIST_loop_oneParameter(type.rs,
                    Append(params, <<type.ret, Null>>))
    IN  IF isEnd(s) \/ next(s).text = ")" \/ Len(params) > 0 THEN R(params, s)
        ELSE afterType(parseTYPE(s))

\* the for (;;) loop of parsePARAMLIST, one iteration per unfolding
RECURSIVE parsePARAMLIST_loop(_, _)
parsePARAMLIST_loop(s, params) ==
    LET afterType(type) ==
            IF type.ret = Null THEN R(params, type.rs)
            ELSE IF next(type.rs).kind = "identifier"
            THEN parsePARAMLIST_loop(step(type.rs),
                    Append(params, <<type.ret, TokenRef(nextIndex(type.rs))>>))
            ELSE parsePARAMLIST_loop(type.rs, Append(params, <<type.ret, Null>>))
        afterComma(comma) ==
            IF comma.ret = FALSE THEN R(params, comma.rs)
            ELSE afterType(parseTYPE(comma.rs))
    IN  IF isEnd(s) \/ next(s).text = ")" THEN R(params, s)
        ELSE afterComma(IF Len(params) > 0 THEN expect(s, ",", "Operator")
                        ELSE R(TRUE, s))

parsePARAMLIST(s) ==
    LET afterLoop(params) == R(params.ret, expect(params.rs, ")", "Operator").rs)
    IN  afterLoop(parsePARAMLIST_loop(expect(s, "(", "Operator").rs, <<>>))

parseFUNC(s) ==
    LET afterStatblock(ret, identifier, paramlist, statblock) ==
            R(NodeFunc(ret.ret, identifier, paramlist.ret, statblock.ret), statblock.rs)
        afterParamlist(ret, identifier, paramlist) ==
            afterStatblock(ret, identifier, paramlist, parseSTATBLOCK(paramlist.rs))
        afterType(ret) ==
            IF ret.ret = Null THEN R(Null, ret.rs)
            ELSE afterParamlist(ret, TokenRef(nextIndex(ret.rs)),
                    parsePARAMLIST(step(ret.rs)))
    IN  afterType(parseTYPE(s))

\* the while loop of parseSCRIPT, one iteration per unfolding
RECURSIVE parseSCRIPT_loop(_, _)
parseSCRIPT_loop(s, funcs) ==
    LET afterFunc(func) ==
            IF func.ret = Null
            THEN parseSCRIPT_loop(
                    Iterated("parseSCRIPT", s, func.rs, FALSE, func.rs), funcs)
            ELSE parseSCRIPT_loop(
                    Iterated("parseSCRIPT", s, func.rs, TRUE, func.rs),
                    Append(funcs, func.ret))
    IN  IF isEnd(s) THEN R(funcs, s)
        ELSE afterFunc(parseFUNC(s))

parseSCRIPT(s) ==
    LET afterLoop(funcs) == R(NodeScript(funcs.ret), funcs.rs)
    IN  afterLoop(parseSCRIPT_loop(s, <<>>))

\* new ReadingState(tokens): the cursor starts at 0
ReadingState(toks, p, diags) ==
    [tokens |-> toks, pos |-> p, diagnostics |-> diags, active |-> {},
     diverged |-> FALSE, attempts |-> <<>>, farthest |-> p, confirms |-> <<>>]

parseFromTokens(toks, diags) == parseSCRIPT(ReadingState(toks, 0, diags))

----------------------------------------------------------------------------
(* Symbols and scopes (symbolic.ts).  Objects are referred to by their id  *)
(* (a positive number); undefined is 0.                                     *)

undefined == 0

Identifiers == {"f", "x"}

SymbolicObject(symbolKind, text, location) ==
    [symbolKind |-> symbolKind,
     declaredPlace |-> [text |-> text, location |-> location],
     nextOverload |-> undefined]

\* new Map(): no identifier has an entry
EmptySymbolMap == [identifier \in Identifiers |-> undefined]

\* a fresh scope: its owner, its parent, no child scopes and an empty
\* symbolMap (the fields the lookups read; the service lists are left out)
createSymbolScope(ownerNode, parentScope) ==
    [ownerNode |-> ownerNode, parentScope |-> parentScope, childScopes |-> <<>>,
     symbolMap |-> EmptySymbolMap]

\* the loop of insertSymbolicObject: the object of the chain from cursor whose
\* nextOverload is undefined; undefined when the chain leads back into
\* visited, where the loop never ends
RECURSIVE insertSymbolicObject_loop(_, _, _)
insertSymbolicObject_loop(objects, cursor, visited) ==
    IF objects[cursor].nextOverload = undefined THEN cursor
    ELSE IF objects[cursor].nextOverload \in visited THEN undefined
    ELSE insertSymbolicObject_loop(objects, objects[cursor].nextOverload,
            visited \cup {objects[cursor].nextOverload})

\* insertSymbolicObject with a new overload linked right behind the map's entry
insertSymbolicObject_behindFirst(objects, map, symbol, diags) ==
    LET identifier == objects[symbol].declaredPlace.text
        hit == map[identifier]
        canOverload == objects[symbol].symbolKind = "Function"
                        /\ objects[hit].symbolKind = "Function"
    IN  IF hit = undefined
        THEN [ret |-> TRUE, map |-> [map EXCEPT ![identifier] = symbol],
              objects |-> objects, diagnostics |-> diags, diverged |-> FALSE]
        ELSE IF canOverload = FALSE
        THEN [ret |-> FALSE, map |-> map, objects |-> objects,
              diagnostics |-> Append(diags,
                    [location |-> objects[symbol].declaredPlace.location,
                     message |-> "Symbol '" \o identifier \o "' is already defined"]),
              diverged |-> FALSE]
        ELSE [ret |-> TRUE, map |-> map,
              objects |-> [objects EXCEPT ![symbol].nextOverload = objects[hit].nextOverload,
                                          ![hit].nextOverload = symbol],
              diagnostics |-> diags, diverged |-> FALSE]

\* insertSymbolicObject with a rejected duplicate still stored in the map
insertSymbolicObject_lastWins(objects, map, symbol, diags) ==
    LET identifier == objects[symbol].declaredPlace.text
        hit == map[identifier]
        canOverload == objects[symbol].symbolKind = "Function"
                        /\ objects[hit].symbolKind = "Function"
        last == insertSymbolicObject_loop(objects, hit, {hit})
    IN  IF hit = undefined
        THEN [ret |-> TRUE, map |-> [map EXCEPT ![identifier] = symbol],
              objects |-> objects, diagnostics |-> diags, diverged |-> FALSE]
        ELSE IF canOverload = FALSE
        THEN [ret |-> FALSE, map |-> [map EXCEPT ![identifier] = symbol],
              objects |-> objects,
              diagnostics |-> Append(diags,
                    [location |-> objects[symbol].declaredPlace.location,
                     message |-> "Symbol '" \o identifier \o "' is already defined"]),
              diverged |-> FALSE]
        ELSE IF last = undefined
        THEN [ret |-> FALSE, map |-> map, objects |-> objects,
              diagnostics |-> diags, diverged |-> TRUE]
        ELSE [ret |-> TRUE, map |-> map,
              objects |-> [objects EXCEPT ![last].nextOverload = symbol],
              diagnostics |-> diags, diverged |-> FALSE]

\* the diagnostic's message is the source's up to its closing pictograph
\* returns [ret, map, objects, diagnostics, diverged]: the returned boolean,
\* the map and the objects after the call, the diagnostics collector, and
\* whether the call looped without end (ret is then meaningless)
insertSymbolicObject(objects, map, symbol, diags) ==
    LET identifier == objects[symbol].declaredPlace.text
        hit == map[identifier]
        canOverload == objects[symbol].symbolKind = "Function"
                        /\ objects[hit].symbolKind = "Function"
        last == insertSymbolicObject_loop(objects, hit, {hit})
    IN  IF hit = undefined
        THEN [ret |-> TRUE, map |-> [map EXCEPT ![identifier] = symbol],
              objects |-> objects, diagnostics |-> diags, diverged |-> FALSE]
        ELSE IF canOverload = FALSE
        THEN [ret |-> FALSE, map |-> map, objects |-> objects,
              diagnostics |-> Append(diags,
                    [location |-> objects[symbol].declaredPlace.location,
                     message |-> "Symbol '" \o identifier \o "' is already defined"]),
              diverged |-> FALSE]
        ELSE IF last = undefined
        THEN [ret |-> FALSE, map |-> map, objects |-> objects,
              diagnostics |-> diags, diverged |-> TRUE]
        ELSE [ret |-> TRUE, map |-> map,
              objects |-> [objects EXCEPT ![last].nextOverload = symbol],
              diagnostics |-> diags, diverged |-> FALSE]

findSymbolShallowly(allScopes, scope, identifier) ==
    allScopes[scope].symbolMap[identifier]

\* SymbolAndScope | undefined
NoSymbolAndScope == [symbol |-> undefined, scope |-> undefined]

\* findSymbolWithParent that reports the scope the search started from
findSymbolWithParent_requestScope(allScopes, scope, identifier) ==
    LET RECURSIVE find(_)
        find(sc) ==
            IF allScopes[sc].symbolMap[identifier] # undefined
            THEN [symbol |-> allScopes[sc].symbolMap[identifier], scope |-> scope]
            ELSE IF allScopes[sc].parentScope = undefined THEN NoSymbolAndScope
            ELSE find(allScopes[sc].parentScope)
    IN  find(scope)

RECURSIVE findSymbolWithParent(_, _, _)
findSymbolWithParent(allScopes, scope, identifier) ==
    LET symbol == allScopes[scope].symbolMap[identifier]
    IN  IF symbol # undefined THEN [symbol |-> symbol, scope |-> scope]
        ELSE IF allScopes[scope].parentScope = undefined THEN NoSymbolAndScope
        ELSE findSymbolWithParent(allScopes, allScopes[scope].parentScope, identifier)

----------------------------------------------------------------------------
(* Scope trees (symbolic.ts).  The owner of a scope is a class node, the   *)
(* token of a namespace, or absent.                                        *)

NoOwnerNode == [undefined |-> TRUE]

NodeClass(text) == [nodeName |-> "Class", identifier |-> [text |-> text]]

NamespaceToken(text) == [kind |-> "identifier", text |-> text]

isClassScope(child, identifier) ==
    IF child.ownerNode = NoOwnerNode THEN FALSE
    ELSE IF "nodeName" \notin DOMAIN child.ownerNode THEN FALSE
    ELSE IF child.ownerNode.nodeName # "Class" THEN FALSE
    ELSE child.ownerNode.identifier.text = identifier

isNamespaceScope(child, identifier) ==
    IF child.ownerNode = NoOwnerNode THEN FALSE
    ELSE IF "nodeName" \in DOMAIN child.ownerNode THEN FALSE
    ELSE child.ownerNode.text = identifier

\* for (const child of childScopes): the first child among matching, the
\* one the loop returns; undefined when it returns none
firstChild(childScopes, matching) ==
    IF \E i \in DOMAIN childScopes : childScopes[i] \in matching
    THEN childScopes[CHOOSE i \in DOMAIN childScopes :
            /\ childScopes[i] \in matching
            /\ \A j \in 1..(i - 1) : childScopes[j] \notin matching]
    ELSE undefined

classScopes(allScopes, identifier) ==
    {child \in DOMAIN allScopes : isClassScope(allScopes[child], identifier)}

namespaceScopes(allScopes, identifier) ==
    {child \in DOMAIN allScopes : isNamespaceScope(allScopes[child], identifier)}

RECURSIVE findClassScopeWithParent(_, _, _)
findClassScopeWithParent(allScopes, scope, identifier) ==
    IF firstChild(allScopes[scope].childScopes, classScopes(allScopes, identifier))
            # undefined
    THEN firstChild(allScopes[scope].childScopes, classScopes(allScopes, identifier))
    ELSE IF allScopes[scope].parentScope = undefined THEN undefined
    ELSE findClassScopeWithParent(allScopes, allScopes[scope].parentScope, identifier)

findNamespaceScopeWithParent(allScopes, scope, identifier) ==
    IF firstChild(allScopes[scope].childScopes, namespaceScopes(allScopes, identifier))
            # undefined
    THEN firstChild(allScopes[scope].childScopes,
                    namespaceScopes(allScopes, identifier))
    ELSE IF allScopes[scope].parentScope = undefined THEN undefined
    ELSE findClassScopeWithParent(allScopes, allScopes[scope].parentScope, identifier)

\* the recursion of findGlobalScope: undefined when a parent link leads back
\* into visited, where the recursion never returns
RECURSIVE findGlobalScope_from(_, _, _)
findGlobalScope_from(allScopes, scope, visited) ==
    IF allScopes[scope].parentScope = undefined THEN scope
    ELSE IF allScopes[scope].parentScope \in visited THEN undefined
    ELSE findGlobalScope_from(allScopes, allScopes[scope].parentScope,
            visited \cup {allScopes[scope].parentScope})

\* findGlobalScope that goes up one scope only
findGlobalScope_stopsAtParent(allScopes, scope) ==
    IF allScopes[scope].parentScope = undefined THEN scope
    ELSE allScopes[scope].parentScope

findGlobalScope(allScopes, scope) == findGlobalScope_from(allScopes, scope, {scope})

\* the loop of collectParentScopes: the list after the pushes from current
\* on; NeverEnds when the loop never ends
NeverEnds == <<undefined>>

RECURSIVE collectParentScopes_loop(_, _, _)
collectParentScopes_loop(allScopes, current, collected) ==
    IF allScopes[current].parentScope = undefined THEN collected
    ELSE IF Len(collected) > Len(allScopes) THEN NeverEnds
    ELSE collectParentScopes_loop(allScopes, allScopes[current].parentScope,
            Append(collected, allScopes[current].parentScope))

collectParentScopes(allScopes, scope) == collectParentScopes_loop(allScopes, scope, <<>>)

----------------------------------------------------------------------------
(* Template types (symbolic.ts) *)

\* DeducedType | undefined
UndefinedType == [undefined |-> TRUE]

DeducedType(symbolType) == [symbolType |-> symbolType]

TemplateType(token) ==
    DeducedType([symbolKind |-> "Type", sourceType |-> "Template", declaredPlace |-> token])

PrimitiveType(sourceType, token) ==
    DeducedType([symbolKind |-> "Type", sourceType |-> sourceType, declaredPlace |-> token])

FunctionType(token) ==
    DeducedType([symbolKind |-> "Function", declaredPlace |-> token])

\* TemplateTranslation | undefined; entries is the Map, keyed by the
\* declaring token of a template parameter
TemplateTranslation(entries) == [undefined |-> FALSE, entries |-> entries]

UndefinedTranslation == [undefined |-> TRUE, entries |-> <<>>]

resolveTemplateType(entries, type) ==
    IF type = UndefinedType THEN UndefinedType
    ELSE IF type.symbolType.symbolKind = "Function" THEN UndefinedType
    ELSE IF type.symbolType.sourceType # "Template" THEN type
    ELSE IF type.symbolType.declaredPlace \in DOMAIN entries
    THEN entries[type.symbolType.declaredPlace]
    ELSE type

\* the callback handed to reduce
resolveTemplateTypes_callback(arg, t) ==
    IF t.undefined = FALSE THEN resolveTemplateType(t.entries, arg) ELSE arg

\* Array.prototype.reduce(callback, initialValue): first element first
RECURSIVE reduce(_, _)
reduce(array, accumulator) ==
    IF array = <<>> THEN accumulator
    ELSE reduce(Tail(array), resolveTemplateTypes_callback(accumulator, array[1]))

\* Array.prototype.reduceRight(callback, initialValue): last element first
RECURSIVE reduceRight(_, _)
reduceRight(array, accumulator) ==
    IF array = <<>> THEN accumulator
    ELSE reduceRight(SubSeq(array, 1, Len(array) - 1),
            resolveTemplateTypes_callback(accumulator, array[Len(array)]))

resolveTemplateTypes_rightToLeft(translations, type) == reduceRight(translations, type)

resolveTemplateTypes(translations, type) == reduce(translations, type)

----------------------------------------------------------------------------
(* Reserved words (tokenReserves.ts) *)

reservedMarkArray ==
    <<"*", "**", "/", "%", "+", "-", "<=", "<", ">=", ">", "(", ")", "==", "!=", "?",
      ":", "=", "+=", "-=", "*=", "/=", "%=", "**=", "++", "--", "&", ",", "{", "}",
      ";", "|", "^", "~", "<<", ">>", ">>>", "&=", "|=", "^=", "<<=", ">>=", ">>>=",
      ".", "&&", "||", "!", "[", "]", "^^", "@", "::">>

reservedKeywordArray ==
    <<"and", "auto", "bool", "break", "case", "cast", "catch", "class", "const",
      "continue", "default", "do", "double", "else", "enum", "false", "float", "for",
      "funcdef", "if", "import", "in", "inout", "int", "interface", "int8", "int16",
      "int32", "int64", "is", "mixin", "namespace", "not", "null", "or", "out",
      "override", "private", "property", "protected", "return", "switch", "true",
      "try", "typedef", "uint", "uint8", "uint16", "uint32", "uint64", "void",
      "while", "xor">>

exprPreOpSet == {"-", "+", "!", "++", "--", "~", "@"}

bitOpSet == {"&", "|", "^", "<<", ">>", ">>>"}

mathOpSet == {"+", "-", "*", "/", "%", "**"}

compOpSet == {"==", "!=", "<", "<=", ">", ">=", "is"}

logicOpSet == {"&&", "||", "^^", "and", "or", "xor"}

assignOpSet ==
    {"=", "+=", "-=", "*=", "/=", "|=", "&=", "^=", "%=", "**=", "<<=", ">>=", ">>>="}

numberTypeSet ==
    {"int", "int8", "int16", "int32", "int64", "uint", "uint8", "uint16", "uint32",
     "uint64", "float", "double"}

primeTypeSet ==
    {"void", "int", "int8", "int16", "int32", "int64", "uint", "uint8", "uint16",
     "uint32", "uint64", "float", "double", "bool"}

Elements(array) == {array[i] : i \in DOMAIN array}

makeEmptyProperty ==
    [isExprPreOp |-> FALSE, isBitOp |-> FALSE, isMathOp |-> FALSE, isCompOp |-> FALSE,
     isLogicOp |-> FALSE, isAssignOp |-> FALSE, isNumber |-> FALSE,
     isPrimeType |-> FALSE]

\* what module initialisation ends with when properties.get(symbol)! is
\* undefined and a flag of it is set
TypeError == [TypeError |-> TRUE]

\* for (const symbol of set) properties.get(symbol)!.flag = true
setFlags(properties, set, flag) ==
    IF properties = TypeError THEN TypeError
    ELSE IF \E symbol \in set : symbol \notin DOMAIN properties THEN TypeError
    ELSE [symbol \in DOMAIN properties |->
            IF symbol \in set THEN [properties[symbol] EXCEPT ![flag] = TRUE]
            ELSE properties[symbol]]

\* one empty record per mark and keyword.  A record is referred to by the
\* word it was created for
EmptyProperties ==
    [symbol \in Elements(reservedMarkArray \o reservedKeywordArray) |->
        makeEmptyProperty]

\* createProperties without the loop over primeTypeSet
createProperties_withoutPrimeTypes ==
    setFlags(setFlags(setFlags(setFlags(setFlags(setFlags(setFlags(
        EmptyProperties,
        exprPreOpSet, "isExprPreOp"), bitOpSet, "isBitOp"), mathOpSet, "isMathOp"),
        compOpSet, "isCompOp"), logicOpSet, "isLogicOp"), assignOpSet, "isAssignOp"),
        numberTypeSet, "isNumber")

createProperties ==
    setFlags(setFlags(setFlags(setFlags(setFlags(setFlags(setFlags(setFlags(
        EmptyProperties,
        exprPreOpSet, "isExprPreOp"), bitOpSet, "isBitOp"), mathOpSet, "isMathOp"),
        compOpSet, "isCompOp"), logicOpSet, "isLogicOp"), assignOpSet, "isAssignOp"),
        numberTypeSet, "isNumber"), primeTypeSet, "isPrimeType")

\* Trie<T>: the nodes are the prefixes of the inserted keys, the values the
\* inserted values by key
EmptyTrie == [nodes |-> {""}, values |-> <<>>]

\* insert(word, word) for each of the words: a key's value is the reference
\* to the record of its word
Trie_insertAll(trie, words) ==
    [nodes |-> trie.nodes \cup
                UNION {{SubSeq(key, 1, n) : n \in 0..Len(key)} : key \in Elements(words)},
     values |-> [key \in (DOMAIN trie.values) \cup Elements(words) |->
                    IF key \in Elements(words) THEN key ELSE trie.values[key]]]

\* no mark matched
NoMark == [found |-> FALSE]

\* the walk of find: node is the node reached with the characters of str
\* before index i (1-based), best the last node passed that holds a value
RECURSIVE Trie_walk(_, _, _, _, _)
Trie_walk(trie, str, i, node, best) ==
    IF i > Len(str) \/ (node \o SubSeq(str, i, i)) \notin trie.nodes
    THEN IF best = "" THEN NoMark
         ELSE [found |-> TRUE, value |-> trie.values[best], length |-> Len(best)]
    ELSE Trie_walk(trie, str, i + 1, node \o SubSeq(str, i, i),
            IF (node \o SubSeq(str, i, i)) \in DOMAIN trie.values
            THEN node \o SubSeq(str, i, i) ELSE best)

\* the longest inserted key that str continues with at offset start (0-based)
Trie_find(trie, str, start) == Trie_walk(trie, str, start + 1, "", "")

\* createMarkPropertyTrie filled from the keyword list
createMarkPropertyTrie_keywords == Trie_insertAll(EmptyTrie, reservedKeywordArray)

\* the value inserted for a mark is its record of reservedWordProperties
createMarkPropertyTrie == Trie_insertAll(EmptyTrie, reservedMarkArray)

reservedMarkProperties == createMarkPropertyTrie

findReservedMarkProperty(str, start) == Trie_find(reservedMarkProperties, str, start)

\* createKeywordPropertyMap: the value set for a keyword is its record of
\* reservedWordProperties
reservedKeywordProperties ==
    [keyword \in Elements(reservedKeywordArray) |-> keyword]

\* Map.get: the record found, or nothing
findReservedKeywordProperty(str) ==
    IF str \in DOMAIN reservedKeywordProperties
    THEN [found |-> TRUE, value |-> reservedKeywordProperties[str]]
    ELSE [found |-> FALSE]

----------------------------------------------------------------------------
(* Builtin types (symbolic.ts).  A builtin type is referred to by its id,  *)
(* its index in the list of the objects created at module initialisation.  *)

\* a token as the symbols see it; the property of a reserved token is the
\* reference to the record of its word in reservedWordProperties
ParsingToken(kind, text, location) ==
    [kind |-> kind, text |-> text, location |-> location, highlight |-> "unset",
     property |-> IF kind = "reserved" THEN text ELSE "undefined"]

createVirtualToken(kind, text) == ParsingToken(kind, text, 0)

createBuiltinType(virtualToken, name) ==
    [symbolKind |-> "Type", declaredPlace |-> virtualToken, sourceType |-> name,
     membersScope |-> undefined]

\* numberTypeSet in the order a loop over it takes
numberTypeOrder ==
    <<"int", "int8", "int16", "int32", "int64", "uint", "uint8", "uint16", "uint32",
      "uint64", "float", "double">>

\* the ids of the objects in the order of their creation
builtinNumberTypeMap ==
    [name \in Elements(numberTypeOrder) |->
        CHOOSE i \in DOMAIN numberTypeOrder : numberTypeOrder[i] = name]

builtinStringType == Len(numberTypeOrder) + 1

builtinBoolType == Len(numberTypeOrder) + 2

builtinVoidType == Len(numberTypeOrder) + 3

builtinAnyType == Len(numberTypeOrder) + 4

builtinAutoType == Len(numberTypeOrder) + 5

\* the objects module initialisation creates
BuiltinTypes ==
    [i \in DOMAIN numberTypeOrder |->
        createBuiltinType(createVirtualToken("reserved", numberTypeOrder[i]), "Number")]
    \o <<createBuiltinType(createVirtualToken("string", "string"), "String"),
         createBuiltinType(createVirtualToken("reserved", "bool"), "Bool"),
         createBuiltinType(createVirtualToken("reserved", "void"), "Void"),
         createBuiltinType(createVirtualToken("reserved", "?"), "Any"),
         createBuiltinType(createVirtualToken("reserved", "auto"), "Auto")>>

\* what a call of tryGetBuiltInType gives: the id returned (or undefined), the
\* builtin types after the call, and whether assert(false) was reached
Looked(ret, types, asserted) == [ret |-> ret, types |-> types, asserted |-> asserted]

assignBuiltinNumberType(types, key) ==
    IF key \in DOMAIN builtinNumberTypeMap
    THEN Looked(builtinNumberTypeMap[key], types, FALSE)
    ELSE Looked(undefined, types, TRUE)

\* tryGetBuiltInType that creates the number type it returns
tryGetBuiltInType_fresh(properties, types, token) ==
    IF token.kind # "reserved" THEN Looked(undefined, types, FALSE)
    ELSE IF token.text = "bool" THEN Looked(builtinBoolType, types, FALSE)
    ELSE IF token.text = "void" THEN Looked(builtinVoidType, types, FALSE)
    ELSE IF token.text = "?" THEN Looked(builtinAnyType, types, FALSE)
    ELSE IF token.text = "auto" THEN Looked(builtinAutoType, types, FALSE)
    ELSE IF properties[token.property].isNumber
    THEN Looked(Len(types) + 1,
                Append(types, createBuiltinType(
                                createVirtualToken("reserved", token.text), "Number")),
                FALSE)
    ELSE Looked(undefined, types, FALSE)

\* tryGetBuiltInType that marks the declaring token of the type it returns
tryGetBuiltInType_highlights(properties, types, token) ==
    IF token.kind # "reserved" THEN Looked(undefined, types, FALSE)
    ELSE IF token.text = "bool" THEN Looked(builtinBoolType, types, FALSE)
    ELSE IF token.text = "void" THEN Looked(builtinVoidType, types, FALSE)
    ELSE IF token.text = "?" THEN Looked(builtinAnyType, types, FALSE)
    ELSE IF token.text = "auto" THEN Looked(builtinAutoType, types, FALSE)
    ELSE IF properties[token.property].isNumber
    THEN Looked(builtinNumberTypeMap[token.text],
                [types EXCEPT ![builtinNumberTypeMap[token.text]].declaredPlace.highlight
                                    = "Builtin"],
                FALSE)
    ELSE Looked(undefined, types, FALSE)

tryGetBuiltInType(properties, types, token) ==
    IF token.kind # "reserved" THEN Looked(undefined, types, FALSE)
    ELSE IF token.text = "bool" THEN Looked(builtinBoolType, types, FALSE)
    ELSE IF token.text = "void" THEN Looked(builtinVoidType, types, FALSE)
    ELSE IF token.text = "?" THEN Looked(builtinAnyType, types, FALSE)
    ELSE IF token.text = "auto" THEN Looked(builtinAutoType, types, FALSE)
    ELSE IF token.kind = "reserved" /\ properties[token.property].isNumber
    THEN assignBuiltinNumberType(types, token.text)
    ELSE Looked(undefined, types, FALSE)

----------------------------------------------------------------------------
(* Token lists the parser is run on *)

Alphabet ==
    {Reserved("if"), Reserved("while"), Reserved("for"), Reserved("return"),
     Reserved("("), Reserved(")"), Reserved(";"), Reserved("+"),
     Identifier("x"),
     \* TokenObject.kind and TokenObject.text are independent fields
     Identifier("if")}

ShortTokenLists == UNION {[1..n -> Alphabet] : n \in 1..MaxLen}

Conditions ==
    {<<Identifier("x")>>,
     <<Identifier("x"), Reserved("+"), Number("1")>>,
     <<Identifier("x"), Reserved("="), Identifier("y")>>}

Statements ==
    {<<Reserved("return"), Identifier("x"), Reserved(";")>>,
     <<Reserved("while"), Reserved("("), Identifier("x"), Reserved(")"),
       Reserved("return"), Identifier("y"), Reserved(";")>>,
     <<Reserved("if"), Reserved("("), Identifier("x"), Reserved(")"),
       Reserved("return"), Number("1"), Reserved(";")>>}

\* what may follow `if ( cond )` or `while ( cond )` instead of a statement
BrokenStatements ==
    {<<>>, <<Reserved(";")>>, <<Identifier("x"), Reserved(";")>>,
     <<Reserved("return"), Reserved(";")>>, <<Reserved("for"), Reserved(";")>>,
     <<Reserved("else"), Reserved("return"), Identifier("x"), Reserved(";")>>}

Guarded(keyword, cond) ==
    <<Reserved(keyword), Reserved("(")>> \o cond \o <<Reserved(")")>>

IfElsePrograms ==
    {Guarded("if", c) \o s1 \o <<Reserved("else")>> \o s2 :
        c \in Conditions, s1 \in Statements, s2 \in Statements}

IfPrograms ==
    {Guarded(k, c) \o s : k \in {"if", "while"}, c \in Conditions,
                       s \in Statements \cup BrokenStatements}

FuncPrograms ==
    {<<Reserved("int"), Identifier("f"), Reserved("("), Reserved(")"), Reserved("{")>>
        \o s \o <<Reserved("}")>> : s \in Statements \cup BrokenStatements}
    \cup
    {<<Reserved("int"), Identifier("f"), Reserved(")"), t>> : t \in Alphabet}

\* TYPE IDENTIFIER PARAMLIST
DeclarationHeads ==
    {<<Reserved("int"), Identifier("f"), Reserved("("), Reserved(")")>>,
     <<Reserved("int"), Identifier("f"), Reserved("("),
       Reserved("int"), Identifier("a"), Reserved(")")>>}

OptionalConst == {<<>>, <<Reserved("const")>>}

EmptyFunction ==
    <<Reserved("void"), Identifier("g"), Reserved("("), Reserved(")"),
      Reserved("{"), Reserved("}")>>

\* FUNC ::= ... PARAMLIST ['const'] FUNCATTR ';', alone or before a function
ForwardDeclarations ==
    {head \o const \o <<Reserved(";")>> \o rest :
        head \in DeclarationHeads, const \in OptionalConst,
        rest \in {<<>>, EmptyFunction}}

\* FUNC ::= ... PARAMLIST 'const' FUNCATTR STATBLOCK
ConstFunctions ==
    {head \o <<Reserved("const"), Reserved("{")>> \o body \o <<Reserved("}")>> :
        head \in DeclarationHeads,
        body \in {<<>>, <<Reserved("return"), Identifier("x"), Reserved(";")>>}}

PostfixMarkers ==
    {Reserved("."), Reserved("["), Reserved("("), Reserved("++"), Reserved("--")}

\* {EXPRPREOP} EXPRVALUE {EXPRPOSTOP}, the postfix operators as bare markers
PostfixChains ==
    {pre \o <<Identifier("x")>> \o chain \o rest :
        pre \in {<<>>, <<Reserved("-")>>},
        chain \in UNION {[1..n -> PostfixMarkers] : n \in 0..2},
        rest \in {<<>>, <<Reserved(";")>>}}

\* int add(int a, int b) { return a; }
AddProgram ==
    <<Reserved("int"), Identifier("add"), Reserved("("),
      Reserved("int"), Identifier("a"), Reserved(","),
      Reserved("int"), Identifier("b"), Reserved(")"),
      Reserved("{"), Reserved("return"), Identifier("a"), Reserved(";"),
      Reserved("}")>>

TokenLists ==
    {AddProgram} \cup ShortTokenLists \cup IfElsePrograms \cup IfPrograms \cup FuncPrograms
        \cup ForwardDeclarations \cup ConstFunctions \cup PostfixChains

----------------------------------------------------------------------------
(* Values of the variables a specification does not use *)

ParserIdle ==
    /\ tokens = <<>>
    /\ pos = 0
    /\ entryPos = 0
    /\ attempts = <<>>
    /\ farthest = 0
    /\ confirms = <<>>

SymbolsIdle ==
    /\ symbolObjects = <<>>
    /\ scopes = <<>>
    /\ insertLog = <<>>
    /\ lookup = <<>>

TemplatesIdle ==
    /\ templateTranslate = <<>>
    /\ templateType = UndefinedType

RegistryIdle ==
    /\ reservedWordProperties = <<>>
    /\ args = <<>>

RunsIdle ==
    /\ builtinTypes = <<>>
    /\ runs = <<>>
    /\ builtinLog = <<>>
    /\ actor = 0
    /\ operations = 0

NothingCalled ==
    /\ diagnostics = <<>>
    /\ diverged = FALSE
    /\ called = "none"
    /\ result = Null

----------------------------------------------------------------------------
(* The parser: a token list is chosen, the cursor is placed with step(),   *)
(* and one production is called on that reading state.                     *)

\* how far past the end of the token list step() places the cursor
MaxOvershoot == 1

Reading == ReadingState(tokens, pos, diagnostics)

Init ==
    /\ tokens \in TokenLists
    /\ pos = 0
    /\ entryPos = 0
    /\ attempts = <<>>
    /\ farthest = 0
    /\ confirms = <<>>
    /\ NothingCalled
    /\ SymbolsIdle
    /\ TemplatesIdle
    /\ RegistryIdle
    /\ RunsIdle

Step ==
    /\ called = "none"
    /\ pos < Len(tokens) + MaxOvershoot
    /\ pos' = pos + 1
    /\ farthest' = pos + 1
    /\ UNCHANGED <<tokens, diagnostics, diverged, called, result, entryPos, attempts,
                   confirms>>
    /\ UNCHANGED <<symbolVars, templateVars, registryVars, runVars>>

\* the effect of calling a production that returned r
Call(production, r) ==
    /\ called = "none"
    /\ called' = production
    /\ entryPos' = pos
    /\ result' = r.ret
    /\ tokens' = r.rs.tokens
    /\ pos' = r.rs.pos
    /\ diagnostics' = r.rs.diagnostics
    /\ diverged' = r.rs.diverged
    /\ attempts' = r.rs.attempts
    /\ confirms' = r.rs.confirms
    /\ farthest' = r.rs.farthest
    /\ UNCHANGED <<symbolVars, templateVars, registryVars, runVars>>

CallParseIF == Call("parseIF", parseIF(Reading))

CallParseFOR == Call("parseFOR", parseFOR(Reading))

CallParseWHILE == Call("parseWHILE", parseWHILE(Reading))

CallParseRETURN == Call("parseRETURN", parseRETURN(Reading))

CallParseSTATEMENT == Call("parseSTATEMENT", parseSTATEMENT(Reading))

CallParseSTATBLOCK == Call("parseSTATBLOCK", parseSTATBLOCK(Reading))

CallParseFUNC == Call("parseFUNC", parseFUNC(Reading))

CallParseEXPRTERM2 == Call("parseEXPRTERM2", parseEXPRTERM2(Reading))

CallParseDATATYPE == Call("parseDATATYPE", parseDATATYPE(Reading))

CallParseTYPE == Call("parseTYPE", parseTYPE(Reading))

CallParseVAR == Call("parseVAR", parseVAR(Reading))

CallParseEXPR == Call("parseEXPR", parseEXPR(Reading))

CallParseASSIGN == Call("parseASSIGN", parseASSIGN(Reading))

CallParseFromTokens ==
    /\ pos = 0
    /\ Call("parseFromTokens", parseFromTokens(tokens, diagnostics))

Next ==
    \/ Step
    \/ CallParseIF
    \/ CallParseFOR
    \/ CallParseWHILE
    \/ CallParseRETURN
    \/ CallParseSTATEMENT
    \/ CallParseSTATBLOCK
    \/ CallParseFUNC
    \/ CallParseEXPRTERM2
    \/ CallParseDATATYPE
    \/ CallParseTYPE
    \/ CallParseVAR
    \/ CallParseEXPR
    \/ CallParseASSIGN
    \/ CallParseFromTokens

Spec == Init /\ [][Next]_vars

----------------------------------------------------------------------------
(* Symbol maps and scopes: symbols are inserted into the symbol maps of    *)
(* the scopes created so far, then looked up.                              *)

\* number of SymbolicObject instances
MaxSymbols == 6

\* number of insertSymbolicObject calls on the one map of SymbolSpec
MaxInserts == 4

\* number of scopes of ScopeSpec
MaxScopes == 3

\* number of insertSymbolicObject calls in ScopeSpec
MaxDeclarations == 2

\* kind and identifier of the i-th symbol object
SymbolShapes ==
    <<  <<"Function", "f">>, <<"Function", "f">>, <<"Function", "f">>,
        <<"Variable", "x">>, <<"Type", "x">>, <<"Variable", "f">>,
        <<"Function", "x">>, <<"Type", "f">>  >>

ShapeOf(i) == SymbolShapes[((i - 1) % Len(SymbolShapes)) + 1]

SymbolObjects ==
    [i \in 1..MaxSymbols |-> SymbolicObject(ShapeOf(i)[1], ShapeOf(i)[2], i)]

\* one call insertSymbolicObject(scopes[scope].symbolMap, symbol)
Insert(scope, symbol) ==
    LET r == insertSymbolicObject(symbolObjects, scopes[scope].symbolMap, symbol,
                                  diagnostics)
    IN  /\ diverged = FALSE
        /\ lookup = <<>>
        /\ scopes' = [scopes EXCEPT ![scope].symbolMap = r.map]
        /\ symbolObjects' = r.objects
        /\ diagnostics' = r.diagnostics
        /\ diverged' = r.diverged
        /\ insertLog' = Append(insertLog,
                            [scope |-> scope, symbol |-> symbol, ret |-> r.ret])
        /\ called' = "insertSymbolicObject"
        /\ UNCHANGED <<result, lookup, parserVars, templateVars, registryVars, runVars>>

SymbolInit ==
    /\ symbolObjects = SymbolObjects
    /\ scopes = <<createSymbolScope(undefined, undefined)>>
    /\ insertLog = <<>>
    /\ lookup = <<>>
    /\ NothingCalled
    /\ ParserIdle
    /\ TemplatesIdle
    /\ RegistryIdle
    /\ RunsIdle

InsertSymbolicObject ==
    /\ Len(insertLog) < MaxInserts
    /\ \E symbol \in 1..Len(symbolObjects) : Insert(1, symbol)

SymbolNext == InsertSymbolicObject

SymbolSpec == SymbolInit /\ [][SymbolNext]_vars

ScopeInit ==
    /\ symbolObjects = SymbolObjects
    /\ scopes = <<>>
    /\ insertLog = <<>>
    /\ lookup = <<>>
    /\ NothingCalled
    /\ ParserIdle
    /\ TemplatesIdle
    /\ RegistryIdle
    /\ RunsIdle

CreateSymbolScope ==
    /\ Len(scopes) < MaxScopes
    /\ lookup = <<>>
    /\ diverged = FALSE
    /\ \E parentScope \in 0..Len(scopes) :
            scopes' = Append(scopes, createSymbolScope(undefined, parentScope))
    /\ called' = "createSymbolScope"
    /\ UNCHANGED <<symbolObjects, insertLog, lookup, diagnostics, diverged, result,
                   parserVars, templateVars, registryVars, runVars>>

DeclareSymbol ==
    /\ Len(insertLog) < MaxDeclarations
    /\ \E scope \in 1..Len(scopes), symbol \in 1..Len(symbolObjects) :
            Insert(scope, symbol)

\* every identifier is looked up from every scope
FindSymbols ==
    /\ lookup = <<>>
    /\ scopes # <<>>
    /\ diverged = FALSE
    /\ lookup' = [scope \in 1..Len(scopes) |-> [identifier \in Identifiers |->
            [shallowly |-> findSymbolShallowly(scopes, scope, identifier),
             withParent |-> findSymbolWithParent(scopes, scope, identifier)]]]
    /\ called' = "findSymbol"
    /\ UNCHANGED <<symbolObjects, scopes, insertLog, diagnostics, diverged, result,
                   parserVars, templateVars, registryVars, runVars>>

ScopeNext ==
    \/ CreateSymbolScope
    \/ DeclareSymbol
    \/ FindSymbols

ScopeSpec == ScopeInit /\ [][ScopeNext]_vars

----------------------------------------------------------------------------
(* Template resolution: a list of translation maps and a type are chosen   *)
(* and resolveTemplateType or resolveTemplateTypes is applied.             *)

\* longest list of translation maps
MaxTranslations == 2

TemplateTokens == {"T", "U"}

TypeValues ==
    {UndefinedType, TemplateType("T"), TemplateType("U"),
     PrimitiveType("Number", "int"), FunctionType("f")}

TranslationValues ==
    {UndefinedTranslation} \cup
    {TemplateTranslation(entries) :
        entries \in UNION {[keys -> TypeValues] : keys \in SUBSET TemplateTokens}}

TemplateInit ==
    /\ templateTranslate \in
            UNION {[1..n -> TranslationValues] : n \in 0..MaxTranslations}
    /\ templateType \in TypeValues
    /\ NothingCalled
    /\ ParserIdle
    /\ SymbolsIdle
    /\ RegistryIdle
    /\ RunsIdle

ResolveTemplateType ==
    /\ called = "none"
    /\ Len(templateTranslate) = 1
    /\ templateTranslate[1].undefined = FALSE
    /\ called' = "resolveTemplateType"
    /\ result' = resolveTemplateType(templateTranslate[1].entries, templateType)
    /\ UNCHANGED <<diagnostics, diverged, parserVars, symbolVars, templateVars,
                   registryVars, runVars>>

ResolveTemplateTypes ==
    /\ called = "none"
    /\ called' = "resolveTemplateTypes"
    /\ result' = resolveTemplateTypes(templateTranslate, templateType)
    /\ UNCHANGED <<diagnostics, diverged, parserVars, symbolVars, templateVars,
                   registryVars, runVars>>

TemplateNext ==
    \/ ResolveTemplateType
    \/ ResolveTemplateTypes

TemplateSpec == TemplateInit /\ [][TemplateNext]_vars

----------------------------------------------------------------------------
(* The reserved-word registry: after module initialisation a string and an *)
(* offset are looked up.                                                   *)

\* longest string looked up
MaxStrLen == 4

Characters == {">", "=", "<", "*", "a"}

RECURSIVE StringsUpTo(_)
StringsUpTo(n) ==
    IF n = 0 THEN {""}
    ELSE StringsUpTo(n - 1) \cup
         {s \o c : s \in {x \in StringsUpTo(n - 1) : Len(x) = n - 1}, c \in Characters}

MarkInit ==
    /\ reservedWordProperties = createProperties
    /\ args = <<>>
    /\ NothingCalled
    /\ ParserIdle
    /\ SymbolsIdle
    /\ TemplatesIdle
    /\ RunsIdle

FindReservedMarkProperty ==
    /\ called = "none"
    /\ \E str \in StringsUpTo(MaxStrLen) : \E start \in 0..Len(str) :
        /\ args' = <<str, start>>
        /\ result' = findReservedMarkProperty(str, start)
    /\ called' = "findReservedMarkProperty"
    /\ UNCHANGED <<reservedWordProperties, diagnostics, diverged, parserVars,
                   symbolVars, templateVars, runVars>>

\* a keyword, a mark or an unregistered word is looked up as a keyword
FindReservedKeywordProperty ==
    /\ called = "none"
    /\ \E str \in Elements(reservedKeywordArray) \cup {"+", "x"} :
        /\ args' = <<str>>
        /\ result' = findReservedKeywordProperty(str)
    /\ called' = "findReservedKeywordProperty"
    /\ UNCHANGED <<reservedWordProperties, diagnostics, diverged, parserVars,
                   symbolVars, templateVars, runVars>>

MarkNext ==
    \/ FindReservedMarkProperty
    \/ FindReservedKeywordProperty

MarkSpec == MarkInit /\ [][MarkNext]_vars

----------------------------------------------------------------------------
(* Analysis runs: after module initialisation each run owns a token list,  *)
(* symbol objects and a scope; the calls of the runs are interleaved, each *)
(* call running to completion.  The registry, the builtin types and the    *)
(* diagnostics collector are the ones of the process.                      *)

\* calls made in all
MaxOperations == 3

\* symbol objects of a run
MaxRunSymbols == 2

Runs == {1, 2}

\* the token list of each run
RunTokenLists == <<AddProgram, EmptyFunction>>

\* the tokens of a run that tryGetBuiltInType is asked about
LookedUpTokens(run) ==
    {ParsingToken("reserved", "int", run), ParsingToken("reserved", "bool", run),
     ParsingToken("reserved", "if", run), ParsingToken("string", "string", run)}

RunState(toks) ==
    [tokens |-> toks, parsed |-> FALSE,
     symbolObjects |-> SubSeq(SymbolObjects, 1, MaxRunSymbols),
     scopes |-> <<createSymbolScope(undefined, undefined)>>]

RunInit ==
    /\ reservedWordProperties = createProperties
    /\ builtinTypes = BuiltinTypes
    /\ runs = [run \in Runs |-> RunState(RunTokenLists[run])]
    /\ builtinLog = <<>>
    /\ actor = 0
    /\ operations = 0
    /\ args = <<>>
    /\ NothingCalled
    /\ ParserIdle
    /\ SymbolsIdle
    /\ TemplatesIdle

\* what every call of a run does: it is counted and attributed
Operation(run, name) ==
    /\ diverged = FALSE
    /\ operations < MaxOperations
    /\ operations' = operations + 1
    /\ actor' = run
    /\ called' = name
    /\ UNCHANGED <<registryVars, parserVars, symbolVars, templateVars>>

RunParseFromTokens ==
    \E run \in Runs :
        LET r == parseFromTokens(runs[run].tokens, diagnostics)
        IN  /\ runs[run].parsed = FALSE
            /\ Operation(run, "parseFromTokens")
            /\ runs' = [runs EXCEPT ![run].tokens = r.rs.tokens, ![run].parsed = TRUE]
            /\ diagnostics' = r.rs.diagnostics
            /\ diverged' = r.rs.diverged
            /\ result' = r.ret
            /\ UNCHANGED <<builtinTypes, builtinLog>>

RunInsertSymbolicObject ==
    \E run \in Runs : \E symbol \in 1..Len(runs[run].symbolObjects) :
        LET r == insertSymbolicObject(runs[run].symbolObjects,
                                      runs[run].scopes[1].symbolMap, symbol, diagnostics)
        IN  /\ Operation(run, "insertSymbolicObject")
            /\ runs' = [runs EXCEPT ![run].symbolObjects = r.objects,
                                    ![run].scopes[1].symbolMap = r.map]
            /\ diagnostics' = r.diagnostics
            /\ diverged' = r.diverged
            /\ result' = [nodeName |-> "inserted", ret |-> r.ret]
            /\ UNCHANGED <<builtinTypes, builtinLog>>

RunFindSymbol ==
    \E run \in Runs :
        /\ Operation(run, "findSymbol")
        /\ result' = [nodeName |-> "found",
                      shallowly |-> findSymbolShallowly(runs[run].scopes, 1, "f"),
                      withParent |-> findSymbolWithParent(runs[run].scopes, 1, "f")]
        /\ UNCHANGED <<runs, builtinTypes, builtinLog, diagnostics, diverged>>

RunTryGetBuiltInType ==
    \E run \in Runs : \E token \in LookedUpTokens(run) :
        LET r == tryGetBuiltInType(reservedWordProperties, builtinTypes, token)
        IN  /\ Operation(run, "tryGetBuiltInType")
            /\ builtinTypes' = r.types
            /\ builtinLog' = Append(builtinLog,
                    [token |-> token, ret |-> r.ret, asserted |-> r.asserted,
                     after |-> operations])
            /\ result' = [nodeName |-> "builtin", ret |-> r.ret]
            /\ UNCHANGED <<runs, diagnostics, diverged>>

\* the type resolved: a template parameter
ResolvedTypes == {TemplateType("T")}

BuiltinTranslation == [key \in {"T"} |-> PrimitiveType("Number", "int")]

RunResolveTemplateType ==
    \E run \in Runs : \E type \in ResolvedTypes :
        /\ Operation(run, "resolveTemplateType")
        /\ result' = resolveTemplateType(BuiltinTranslation, type)
        /\ UNCHANGED <<runs, builtinTypes, builtinLog, diagnostics, diverged>>

RunResolveTemplateTypes ==
    \E run \in Runs : \E type \in ResolvedTypes :
        /\ Operation(run, "resolveTemplateTypes")
        /\ result' = resolveTemplateTypes(
                        <<UndefinedTranslation, TemplateTranslation(BuiltinTranslation)>>,
                        type)
        /\ UNCHANGED <<runs, builtinTypes, builtinLog, diagnostics, diverged>>

RunNext ==
    \/ RunParseFromTokens
    \/ RunInsertSymbolicObject
    \/ RunFindSymbol
    \/ RunTryGetBuiltInType
    \/ RunResolveTemplateType
    \/ RunResolveTemplateTypes

RunSpec == RunInit /\ [][RunNext]_vars

----------------------------------------------------------------------------
(* Scope trees: scopes are created under the scopes created so far, each   *)
(* new scope entered in the childScopes of its parent, then one lookup is  *)
(* made.                                                                   *)

ScopeNames == {"N", "M"}

OwnerNodes ==
    {NoOwnerNode} \cup {NodeClass(text) : text \in ScopeNames}
        \cup {NamespaceToken(text) : text \in ScopeNames}

TreeInit ==
    /\ scopes = <<>>
    /\ symbolObjects = <<>>
    /\ insertLog = <<>>
    /\ lookup = <<>>
    /\ NothingCalled
    /\ ParserIdle
    /\ TemplatesIdle
    /\ RegistryIdle
    /\ RunsIdle

\* the heap after parent.childScopes.push(scope) for a scope just created
\* under parent (nothing to push for a scope without parent)
pushChildScope(allScopes, parentScope, scope) ==
    IF parentScope = undefined THEN allScopes
    ELSE [allScopes EXCEPT ![parentScope].childScopes = Append(@, scope)]

CreateChildScope ==
    /\ called \in {"none", "createSymbolScope"}
    /\ Len(scopes) < MaxScopes
    /\ \E ownerNode \in OwnerNodes, parentScope \in 0..Len(scopes) :
            scopes' = pushChildScope(
                        Append(scopes, createSymbolScope(ownerNode, parentScope)),
                        parentScope, Len(scopes) + 1)
    /\ called' = "createSymbolScope"
    /\ UNCHANGED <<symbolObjects, insertLog, lookup, diagnostics, diverged, result,
                   parserVars, templateVars, registryVars, runVars>>

\* a lookup ends the behaviour: one function is applied to one scope
ScopeLookup(name, arguments, value) ==
    /\ called \in {"none", "createSymbolScope"}
    /\ called' = name
    /\ args' = arguments
    /\ result' = value
    /\ UNCHANGED <<reservedWordProperties, diagnostics, diverged, parserVars,
                   symbolVars, templateVars, runVars>>

FindNamespaceScopeWithParent ==
    \E scope \in 1..Len(scopes), identifier \in ScopeNames :
        ScopeLookup("findNamespaceScopeWithParent", <<scope, identifier>>,
            [nodeName |-> "scope",
             scope |-> findNamespaceScopeWithParent(scopes, scope, identifier)])

\* findGlobalScope and collectParentScopes applied to every scope, and
\* findGlobalScope applied to what it returned
FindGlobalScope ==
    /\ scopes # <<>>
    /\ ScopeLookup("findGlobalScope", <<>>,
            [scope \in 1..Len(scopes) |->
                [global |-> findGlobalScope(scopes, scope),
                 again |-> IF findGlobalScope(scopes, scope) = undefined THEN undefined
                           ELSE findGlobalScope(scopes, findGlobalScope(scopes, scope)),
                 parents |-> collectParentScopes(scopes, scope)]])

TreeNext ==
    \/ CreateChildScope
    \/ FindNamespaceScopeWithParent
    \/ FindGlobalScope

TreeSpec == TreeInit /\ [][TreeNext]_vars

----------------------------------------------------------------------------
(* The operator productions on the registered words: after module          *)
(* initialisation a registered word, as a reserved token before an         *)
(* identifier, is offered to one of the productions that test operators.   *)

OperatorInit ==
    /\ tokens \in {<<Reserved(word), Identifier("x")>> :
                        word \in Elements(reservedMarkArray \o reservedKeywordArray)}
    /\ pos = 0
    /\ entryPos = 0
    /\ attempts = <<>>
    /\ farthest = 0
    /\ confirms = <<>>
    /\ reservedWordProperties = createProperties
    /\ args = <<>>
    /\ NothingCalled
    /\ SymbolsIdle
    /\ TemplatesIdle
    /\ RunsIdle

CallParseEXPROP == Call("parseEXPROP", parseEXPROP(Reading))

CallParseASSIGNOP == Call("parseASSIGNOP", parseASSIGNOP(Reading))

OperatorNext ==
    \/ CallParseEXPROP
    \/ CallParseASSIGNOP
    \/ CallParseEXPRTERM2

OperatorSpec == OperatorInit /\ [][OperatorNext]_vars

----------------------------------------------------------------------------
(* Properties of the parser *)

\* the token list as it was when the production was called
OrigTokens == [i \in DOMAIN tokens |-> [tokens[i] EXCEPT !.highlight = "unset"]]

\* the reading state the production was called on
Entry == ReadingState(OrigTokens, entryPos, <<>>)

StatementProductions ==
    {"parseIF", "parseFOR", "parseWHILE", "parseRETURN", "parseSTATEMENT"}

IsNode(ret) == ret.nodeName \notin {"null", "mismatch", "pending"}

\* C1: for every non-empty token list, with tokens of any kind and text,
\* parseFromTokens terminates (no loop and no recursion runs forever, also at
\* or past the end of the list) and returns a script node.
C1_ParseFromTokensTerminates ==
    called = "parseFromTokens" => (~diverged /\ result.nodeName = "Script")

\* C2: whenever a statement-level production returns 'mismatch', the cursor
\* is where it was when the production was called.
C2_MismatchLeavesCursor ==
    (called \in StatementProductions /\ ~diverged /\ result = Mismatch)
        => pos = entryPos

\* C3: whenever parseIF, parseWHILE, parseRETURN or parseSTATEMENT returns
\* 'pending', the cursor has advanced and at least one diagnostic was emitted
\* during the call.
C3_PendingAdvancedAndDiagnosed ==
    (called \in {"parseIF", "parseWHILE", "parseRETURN", "parseSTATEMENT"}
        /\ ~diverged /\ result = Pending)
        => (pos > entryPos /\ Len(diagnostics) > 0)

\* `if ( cond )` as parseIF reads it from the entry state: what the two
\* expect calls returned, the condition, and the reading state after `)`
IfHead ==
    LET open == expect(step(Entry), "(", "Operator")
        assign == parseASSIGN(open.rs)
        close == expect(assign.rs, ")", "Operator")
    IN  [parsed |-> next(Entry).text = "if" /\ open.ret /\ assign.ret # Null /\ close.ret,
         assign |-> assign.ret,
         rs |-> close.rs]

\* the consequent statement, parsed right after `if ( cond )`
IfConsequent == parseSTATEMENT(IfHead.rs)

\* the statement after the `else` token that follows the consequent
IfAlternative == parseSTATEMENT(step(IfConsequent.rs))

\* parseIF was called on `if ( cond ) S1 else S2`, each part well-formed
IfElseWellFormed ==
    /\ called = "parseIF"
    /\ IfHead.parsed
    /\ IsNode(IfConsequent.ret)
    /\ ~isEnd(IfConsequent.rs)
    /\ next(IfConsequent.rs) = Reserved("else")
    /\ IsNode(IfAlternative.ret)
    /\ IfAlternative.rs.diagnostics = <<>>
    /\ ~IfAlternative.rs.diverged

\* C4: on `if ( cond ) S1 else S2` with well-formed parts parseIF returns an
\* If node whose alternative is the node parsed from S2, and the cursor ends
\* right after S2.
C4_ElseBranchParsed ==
    IfElseWellFormed =>
        /\ result.nodeName = "IF"
        /\ result.fs = IfAlternative.ret
        /\ pos = IfAlternative.rs.pos

\* parseIF was called, parsed `if ( cond )`, and the consequent then failed
IfConsequentFailed ==
    /\ called = "parseIF"
    /\ IfHead.parsed
    /\ IfConsequent.ret \in {Mismatch, Pending}
    /\ ~IfConsequent.rs.diverged

\* C5 as stated: with `if ( cond )` parsed and the consequent failed, parseIF
\* returns an If node holding the condition with both branches dropped.
C5_Original_IfKeptWithoutBranches ==
    IfConsequentFailed =>
        /\ result.nodeName = "IF"
        /\ result.assign = IfHead.assign
        /\ result.ts = Null
        /\ result.fs = Null

\* C5 amended: with `if ( cond )` parsed and the consequent failed, parseIF
\* returns 'pending' (no If node is built), the cursor left where the failed
\* consequent left it.
C5_IfPendingOnFailedConsequent ==
    IfConsequentFailed => (result = Pending /\ pos = IfConsequent.rs.pos)

C5_Witness == IfConsequentFailed /\ result = Pending /\ diagnostics = <<>>

----------------------------------------------------------------------------
(* Properties of the symbol maps *)

\* the symbols met by following nextOverload from cursor, at most fuel of them
RECURSIVE OverloadChain(_, _, _)
OverloadChain(objects, cursor, fuel) ==
    IF cursor = undefined \/ fuel = 0 THEN <<>>
    ELSE <<cursor>> \o OverloadChain(objects, objects[cursor].nextOverload, fuel - 1)

\* the chain under identifier in the one map of SymbolSpec
ChainUnder(identifier) ==
    OverloadChain(symbolObjects, scopes[1].symbolMap[identifier],
                  Len(symbolObjects) + 1)

TextOf(symbol) == symbolObjects[symbol].declaredPlace.text

KindOf(symbol) == symbolObjects[symbol].symbolKind

\* the calls made so far with a symbol declared as identifier, in call order
InsertedUnder(identifier) ==
    LET under(e) == TextOf(e.symbol) = identifier
    IN  SelectSeq(insertLog, under)

\* the calls under identifier inserted distinct functions f1..fn, each
\* having returned true
DistinctFunctionsInserted(identifier) ==
    LET log == InsertedUnder(identifier)
    IN  /\ log # <<>>
        /\ \A i \in DOMAIN log : KindOf(log[i].symbol) = "Function" /\ log[i].ret
        /\ \A i, j \in DOMAIN log : i # j => log[i].symbol # log[j].symbol

\* C6: after distinct functions f1..fn were inserted under one identifier
\* (each call returning true), the map entry is f1 and the nextOverload chain
\* from it visits exactly f1, ..., fn in insertion order and ends, whatever
\* was inserted in between under other identifiers.
C6_OverloadChainInInsertionOrder ==
    \A identifier \in Identifiers :
        (DistinctFunctionsInserted(identifier) /\ ~diverged) =>
            ChainUnder(identifier) =
                [i \in DOMAIN InsertedUnder(identifier) |->
                    InsertedUnder(identifier)[i].symbol]

\* three functions f with an insertion under x between them
C6_Witness ==
    /\ DistinctFunctionsInserted("f")
    /\ ~diverged
    /\ Len(InsertedUnder("f")) = 3
    /\ Len(insertLog) = 4
    /\ TextOf(insertLog[2].symbol) = "x"
    /\ Len(ChainUnder("f")) = 3

\* the call that was just made, and the entry it met in the map
LastInsert == insertLog'[Len(insertLog')]

MetEntry == scopes[LastInsert.scope].symbolMap[TextOf(LastInsert.symbol)]

DuplicateInserted ==
    /\ insertLog' # insertLog
    /\ MetEntry # undefined
    /\ ~(KindOf(LastInsert.symbol) = "Function" /\ KindOf(MetEntry) = "Function")

\* C7: a call whose symbol's identifier already has an entry, the pair not
\* being two functions, returns false, emits exactly one diagnostic and
\* leaves every map entry and every overload chain as it was.
C7_DuplicateRejected ==
    [][DuplicateInserted =>
        /\ LastInsert.ret = FALSE
        /\ diverged' = FALSE
        /\ Len(diagnostics') = Len(diagnostics) + 1
        /\ scopes' = scopes
        /\ symbolObjects' = symbolObjects]_vars

\* a variable x, then a type x rejected, the map still holding the variable
C7_Witness ==
    /\ Len(insertLog) >= 2
    /\ KindOf(insertLog[1].symbol) = "Variable"
    /\ TextOf(insertLog[1].symbol) = "x"
    /\ KindOf(insertLog[2].symbol) = "Type"
    /\ TextOf(insertLog[2].symbol) = "x"
    /\ insertLog[2].ret = FALSE
    /\ scopes[1].symbolMap["x"] = insertLog[1].symbol

\* the chain scope, scope.parentScope, ... up to the root
RECURSIVE ScopeChain(_)
ScopeChain(scope) ==
    IF scope = undefined THEN <<>>
    ELSE <<scope>> \o ScopeChain(scopes[scope].parentScope)

\* the places of the chain from scope whose symbolMap contains identifier
Declaring(scope, identifier) ==
    {i \in DOMAIN ScopeChain(scope) :
        scopes[ScopeChain(scope)[i]].symbolMap[identifier] # undefined}

Nearest(scope, identifier) ==
    ScopeChain(scope)[CHOOSE i \in Declaring(scope, identifier) :
                        \A j \in Declaring(scope, identifier) : i <= j]

\* C8: findSymbolWithParent(s, id) returns the symbol and the scope of the
\* nearest scope on the chain s, s.parentScope, ... whose map contains id,
\* returns none exactly when no scope of the chain contains id, and agrees
\* with findSymbolShallowly(s, id) whenever that is defined.
C8_FindsNearestDeclaringScope ==
    lookup # <<>> =>
        \A scope \in DOMAIN lookup : \A identifier \in Identifiers :
            LET found == lookup[scope][identifier]
            IN  /\ (Declaring(scope, identifier) = {})
                        <=> (found.withParent = NoSymbolAndScope)
                /\ Declaring(scope, identifier) # {} =>
                        found.withParent =
                            [symbol |-> scopes[Nearest(scope, identifier)]
                                            .symbolMap[identifier],
                             scope |-> Nearest(scope, identifier)]
                /\ found.shallowly # undefined =>
                        found.withParent = [symbol |-> found.shallowly, scope |-> scope]

\* a lookup from a scope without the identifier, found in its parent, which
\* shadows a declaration of the grandparent
C8_Witness ==
    /\ lookup # <<>>
    /\ \E scope \in DOMAIN lookup : \E identifier \in Identifiers :
        /\ Len(ScopeChain(scope)) = 3
        /\ Declaring(scope, identifier) = {2, 3}
        /\ lookup[scope][identifier].withParent.scope = ScopeChain(scope)[2]
        /\ lookup[scope][identifier].shallowly = undefined

----------------------------------------------------------------------------
(* Properties of template resolution *)

IsTemplateParameter(type) ==
    /\ type.symbolType.symbolKind = "Type"
    /\ type.symbolType.sourceType = "Template"

\* C9: resolveTemplateType(map, t) returns map's binding for t when t is a
\* template parameter whose declaring token is a key of map, and t itself
\* for every other defined t: non-template types, unbound template
\* parameters and function-typed values.
C9_ResolveTemplateType ==
    (called = "resolveTemplateType" /\ templateType # UndefinedType) =>
        result =
            IF IsTemplateParameter(templateType)
                /\ templateType.symbolType.declaredPlace
                        \in DOMAIN templateTranslate[1].entries
            THEN templateTranslate[1].entries[templateType.symbolType.declaredPlace]
            ELSE templateType

\* resolveTemplateType(mn, ... resolveTemplateType(m1, t) ...), the absent
\* maps skipped
RECURSIVE FoldLeftToRight(_, _)
FoldLeftToRight(maps, type) ==
    IF maps = <<>> THEN type
    ELSE LET n == Len(maps)
             inner == FoldLeftToRight(SubSeq(maps, 1, n - 1), type)
         IN  IF maps[n].undefined THEN inner
             ELSE resolveTemplateType(maps[n].entries, inner)

Reversed(maps) == [i \in DOMAIN maps |-> maps[Len(maps) + 1 - i]]

\* C10: resolveTemplateTypes([m1, ..., mn], t) is the left-to-right fold
\* resolveTemplateType(mn, ... resolveTemplateType(m1, t) ...), absent maps
\* skipped and the empty list returning t.
C10_FoldsLeftToRight ==
    called = "resolveTemplateTypes" =>
        /\ result = FoldLeftToRight(templateTranslate, templateType)
        /\ templateTranslate = <<>> => result = templateType

\* two maps whose order decides the result
C10_Witness ==
    /\ called = "resolveTemplateTypes"
    /\ Len(templateTranslate) = 2
    /\ templateTranslate[1].undefined = FALSE
    /\ templateTranslate[2].undefined = FALSE
    /\ result # UndefinedType
    /\ result # FoldLeftToRight(Reversed(templateTranslate), templateType)

----------------------------------------------------------------------------
(* Properties of the parser's loops *)

\* the iterations of the statement-block loop that produced neither a
\* statement nor a variable declaration and were followed by another attempt
FailedAttempts ==
    {i \in DOMAIN attempts :
        /\ attempts[i].loop = "parseSTATBLOCK"
        /\ ~attempts[i].produced
        /\ attempts[i].to < Len(tokens)
        /\ tokens[attempts[i].to + 1].text # "}"}

\* C12 as stated: when the attempt of the statement-block loop that starts at
\* position p produces neither a statement nor a variable declaration, the
\* next attempt starts at p + 1.
C12_Original_NextAttemptAtNextToken ==
    (called = "parseSTATBLOCK" /\ ~diverged) =>
        \A i \in FailedAttempts : attempts[i].to = attempts[i].from + 1

\* C12 amended: after such an attempt exactly one token is skipped from where
\* the failed productions left the cursor, which is past p: the next attempt
\* starts one token after that position.
C12_SkipsOneTokenPastFailure ==
    (called = "parseSTATBLOCK" /\ ~diverged) =>
        \A i \in FailedAttempts :
            /\ attempts[i].left > attempts[i].from
            /\ attempts[i].to = attempts[i].left + 1

\* a failed attempt that consumed tokens, then the skip, then a new attempt
C12_Witness ==
    /\ called = "parseSTATBLOCK"
    /\ ~diverged
    /\ \E i \in FailedAttempts :
        /\ attempts[i].to > attempts[i].from + 1
        /\ i < Len(attempts)

----------------------------------------------------------------------------
(* Properties of the grammar the parser accepts *)

StartsWith(list, prefix) ==
    /\ Len(prefix) <= Len(list)
    /\ SubSeq(list, 1, Len(prefix)) = prefix

\* parseFUNC was called at the start of a declaration that begins with prefix
FuncCalledOn(prefix) ==
    /\ called = "parseFUNC"
    /\ entryPos = 0
    /\ StartsWith(OrigTokens, prefix)

\* C13: a function declaration whose parameter list is followed by `;`
\* (optionally after `const`) is accepted by parseFUNC: the function node is
\* returned, the cursor stops right after the `;` and no diagnostic is
\* emitted; `const` before a `{ ... }` body is accepted without diagnostic.
C13_ForwardDeclarationAccepted ==
    /\ \A head \in DeclarationHeads : \A const \in OptionalConst :
        FuncCalledOn(head \o const \o <<Reserved(";")>>) =>
            /\ ~diverged
            /\ result.nodeName = "Func"
            /\ pos = Len(head \o const) + 1
            /\ diagnostics = <<>>
    /\ (called = "parseFUNC" /\ entryPos = 0 /\ OrigTokens \in ConstFunctions) =>
            /\ ~diverged
            /\ result.nodeName = "Func"
            /\ diagnostics = <<>>

\* C14: after the primary value parseEXPRTERM2 consumes every consecutive
\* postfix marker, so when it returns after a consumed postfix marker the
\* next token is not a postfix marker.
C14_PostfixChainConsumed ==
    (called = "parseEXPRTERM2" /\ ~diverged /\ result.nodeName = "EXPRTERM2"
        /\ result.stop # Null /\ pos < Len(tokens))
        => tokens[pos + 1].text \notin opstops

\* C15: every iteration of the loops of parseSCRIPT and parseSTATBLOCK that
\* goes round again strictly increases the cursor position, whether its
\* production succeeded or failed, and the cursor never decreases during a
\* parse: it is never put back below a position it has had.
C15_CursorOnlyAdvances ==
    [][/\ pos' >= pos
       /\ farthest' = pos'
       /\ \A i \in DOMAIN attempts' :
            /\ attempts'[i].from <= attempts'[i].left
            /\ attempts'[i].left <= attempts'[i].to
            /\ attempts'[i].from < attempts'[i].to]_vars

\* a parse in which both loops went round, one iteration of the block loop
\* with a failed production and one with a statement
C15_Witness ==
    /\ called = "parseFromTokens"
    /\ ~diverged
    /\ \E i, j, k \in DOMAIN attempts :
        /\ attempts[i].loop = "parseSCRIPT"
        /\ attempts[j].loop = "parseSTATBLOCK" /\ attempts[j].produced
        /\ attempts[k].loop = "parseSTATBLOCK" /\ ~attempts[k].produced

\* the expression that is the single value held by the token at index
ValueAt(index) ==
    NodeASSIGN(NodeCONDITION(
        NodeEXPR(NodeEXPRTERM2(Null, TokenRef(index), Null), Null, Null)), Null, Null)

\* the parameter: the type named by the token at index, then its identifier
ParameterAt(index) ==
    <<NodeTYPE(NodeDATATYPE(TokenRef(index))), TokenRef(index + 1)>>

AddParsed == called = "parseFromTokens" /\ OrigTokens = AddProgram

\* C16: parseFromTokens on the tokens of `int add(int a, int b) { return a; }`
\* yields exactly one function node named add with the two parameters int a
\* and int b and a body of one return statement whose expression is the
\* value a; the cursor ends at the end of the input, without diagnostics.
C16_AddParsedAsOneFunction ==
    AddParsed =>
        /\ ~diverged
        /\ result.nodeName = "Script"
        /\ Len(result.funcs) = 1
        /\ result.funcs[1] =
            NodeFunc(NodeTYPE(NodeDATATYPE(TokenRef(1))), TokenRef(2),
                     <<ParameterAt(4), ParameterAt(7)>>,
                     <<NodeRETURN(ValueAt(12))>>)
        /\ tokens[2].text = "add"
        /\ tokens[5].text = "a" /\ tokens[8].text = "b" /\ tokens[12].text = "a"
        /\ pos = Len(tokens)
        /\ diagnostics = <<>>

C16_Witness ==
    /\ AddParsed
    /\ Len(result.funcs) = 1
    /\ Len(result.funcs[1].paramlist) = 2
    /\ pos = 14

\* the token the production was called on
EntryToken == OrigTokens[entryPos + 1]

\* C19: the expression of a return statement is optional: on `return`
\* directly followed by `;` parseRETURN returns a return node, consumes both
\* tokens and emits no diagnostic.
C19_ReturnWithoutExpression ==
    (called = "parseRETURN" /\ entryPos + 2 <= Len(tokens)
        /\ EntryToken = Reserved("return")
        /\ OrigTokens[entryPos + 2] = Reserved(";"))
        => /\ ~diverged
           /\ result.nodeName = "RETURN"
           /\ pos = entryPos + 2
           /\ diagnostics = <<>>

\* DATATYPE ::= (IDENTIFIER | PRIMTYPE | '?' | 'auto')
StartsDatatype(token) ==
    \/ token.kind = "identifier"
    \/ token.kind = "reserved" /\ token.text \in primeTypeSet \cup {"?", "auto"}

\* C20: parseDATATYPE, and hence parseTYPE, yields a type node only when the
\* next token is an identifier, a primitive type name, `?` or `auto`; for any
\* other token it yields no node.
C20_DatatypeOnlyOnTypeTokens ==
    (called \in {"parseDATATYPE", "parseTYPE"} /\ entryPos < Len(tokens))
        => (result # Null <=> StartsDatatype(EntryToken))

----------------------------------------------------------------------------
(* Properties of the reserved-word registry *)

\* the entries of reservedMarkArray that str continues with at offset start
MarksAt(str, start) ==
    {mark \in Elements(reservedMarkArray) :
        /\ start + Len(mark) <= Len(str)
        /\ SubSeq(str, start + 1, start + Len(mark)) = mark}

LongestMarkAt(str, start) ==
    CHOOSE mark \in MarksAt(str, start) :
        \A other \in MarksAt(str, start) : Len(other) <= Len(mark)

\* C17: findReservedMarkProperty returns the longest entry of
\* reservedMarkArray that is a prefix of the string at the offset, and none
\* when no entry is a prefix: `>>>=` is matched as the 4-character mark and
\* `>>=` as the 3-character mark, never as a shorter registered prefix.
C17_LongestMarkMatched ==
    called = "findReservedMarkProperty" =>
        IF MarksAt(args[1], args[2]) = {} THEN result = NoMark
        ELSE /\ result.found
             /\ result.value = LongestMarkAt(args[1], args[2])
             /\ result.length = Len(LongestMarkAt(args[1], args[2]))
             /\ result.value \in DOMAIN reservedWordProperties

\* `>>=` looked up at an offset past the start of the string
C17_Witness ==
    /\ called = "findReservedMarkProperty"
    /\ args[2] > 0
    /\ MarksAt(args[1], args[2]) = {">", ">>", ">>="}
    /\ result.found
    /\ result.length = 3

----------------------------------------------------------------------------
(* Properties of the builtin types and of the state the runs share *)

BuiltinNames == {"bool", "void", "?", "auto"} \cup numberTypeSet

\* the call returned the builtin type of the token's text
ReturnedBuiltin(token, looked) ==
    /\ looked.asserted = FALSE
    /\ IF token.kind = "reserved" /\ token.text \in BuiltinNames
       THEN /\ looked.ret \in DOMAIN BuiltinTypes
            /\ looked.types[looked.ret].declaredPlace.text = token.text
       ELSE looked.ret = undefined

\* C11: tryGetBuiltInType is a fixed mapping from builtin names to the
\* instances of the process: for every reserved token whose text is bool,
\* void, ?, auto or a registered numeric type name it returns that name's
\* type without reaching the assertion of assignBuiltinNumberType, any two
\* calls with tokens of the same kind and text return the identical instance,
\* whatever the location, the order and the calls in between, and for every
\* other token it returns undefined.
C11_BuiltinTypesFixedMapping ==
    /\ \A i \in DOMAIN builtinLog :
        /\ ReturnedBuiltin(builtinLog[i].token,
                [ret |-> builtinLog[i].ret, types |-> builtinTypes,
                 asserted |-> builtinLog[i].asserted])
        /\ \A j \in DOMAIN builtinLog :
                (/\ builtinLog[j].token.kind = builtinLog[i].token.kind
                 /\ builtinLog[j].token.text = builtinLog[i].token.text)
                    => builtinLog[j].ret = builtinLog[i].ret
    /\ \A word \in DOMAIN reservedWordProperties : \A run \in Runs :
            ReturnedBuiltin(ParsingToken("reserved", word, run),
                tryGetBuiltInType(reservedWordProperties, builtinTypes,
                                  ParsingToken("reserved", word, run)))

\* int looked up by both runs, with another call in between
C11_Witness ==
    \E i, j \in DOMAIN builtinLog :
        /\ builtinLog[i].token = ParsingToken("reserved", "int", 1)
        /\ builtinLog[j].token = ParsingToken("reserved", "int", 2)
        /\ builtinLog[j].after > builtinLog[i].after + 1
        /\ builtinLog[i].ret = builtinNumberTypeMap["int"]
        /\ builtinLog[j].ret = builtinLog[i].ret

\* C18: after module initialisation no call of the core writes the state the
\* process shares: whatever the interleaving of the runs' parseFromTokens,
\* insertSymbolicObject, symbol lookups, tryGetBuiltInType and
\* resolveTemplateType(s), every reserved-word property record and every
\* builtin type (its declaredPlace token included) stays as created, and a
\* call of one run leaves the tokens, maps and scopes of the other runs as
\* they were.
C18_SharedStateNeverWritten ==
    [][/\ reservedWordProperties' = createProperties
       /\ \A id \in DOMAIN BuiltinTypes : builtinTypes'[id] = BuiltinTypes[id]
       /\ \A run \in Runs : run # actor' => runs'[run] = runs[run]]_vars

\* run 1 parsed its tokens, a builtin type was looked up, run 2 inserted f
C18_Witness ==
    /\ reservedWordProperties = createProperties
    /\ runs[1].parsed
    /\ \E i \in DOMAIN runs[1].tokens : runs[1].tokens[i].highlight # "unset"
    /\ \E i \in DOMAIN builtinLog : builtinLog[i].ret # undefined
    /\ actor = 2
    /\ called = "insertSymbolicObject"
    /\ runs[2].scopes[1].symbolMap["f"] # undefined

----------------------------------------------------------------------------
(* Properties of the overload chains *)

NoRepeats(seq) == \A i, j \in DOMAIN seq : i # j => seq[i] # seq[j]

\* C21: after any sequence of insertSymbolicObject calls, calls with a
\* function object that was inserted before included, the nextOverload chain
\* from every map entry ends, holds each symbol at most once, and no call
\* looped without end.
C21_OverloadChainsAcyclic ==
    /\ diverged = FALSE
    /\ \A identifier \in Identifiers :
        /\ Len(ChainUnder(identifier)) <= Len(symbolObjects)
        /\ NoRepeats(ChainUnder(identifier))

----------------------------------------------------------------------------
(* Properties of the highlight annotations *)

\* C22: confirm writes the highlight of a token only while the cursor is on
\* that token: no call of confirm is made with the cursor at or past the end
\* of the token list, so the highlight given to the last token is not
\* overwritten by a production running at the end of input.
C22_ConfirmOnlyOnCursorToken ==
    \A i \in DOMAIN confirms :
        /\ confirms[i].pos < Len(tokens)
        /\ confirms[i].index = confirms[i].pos + 1

----------------------------------------------------------------------------
(* Properties of the scope trees *)

\* scope, its parent, its parent's parent, ...
RECURSIVE ParentChain(_)
ParentChain(scope) ==
    IF scope = undefined THEN <<>>
    ELSE <<scope>> \o ParentChain(scopes[scope].parentScope)

HasNamespace(scope, identifier) ==
    \E i \in DOMAIN scopes[scope].childScopes :
        isNamespaceScope(scopes[scopes[scope].childScopes[i]], identifier)

\* the scopes of the chain from scope that have a namespace child identifier
NamespaceHolders(scope, identifier) ==
    {i \in DOMAIN ParentChain(scope) : HasNamespace(ParentChain(scope)[i], identifier)}

\* C23: findNamespaceScopeWithParent(scope, id) returns the namespace child
\* scope id of the nearest scope on the chain scope, scope.parentScope, ...
\* that has one, and undefined when no scope of the chain has one; what it
\* returns is never a class scope.
C23_FindsNearestNamespace ==
    called = "findNamespaceScopeWithParent" =>
        IF NamespaceHolders(args[1], args[2]) = {} THEN result.scope = undefined
        ELSE /\ result.scope # undefined
             /\ isNamespaceScope(scopes[result.scope], args[2])
             /\ scopes[result.scope].parentScope =
                    ParentChain(args[1])[CHOOSE i \in NamespaceHolders(args[1], args[2]) :
                        \A j \in NamespaceHolders(args[1], args[2]) : i <= j]

\* C27: in a scope tree built by createSymbolScope calls, each new scope
\* under a scope created before or under none, findGlobalScope returns for
\* every scope the scope without parent its parent chain ends in, a scope
\* and its parent get the same result, findGlobalScope applied to its result
\* gives that result again, and collectParentScopes gives the parent chain:
\* as many scopes as the scope is deep, the last of them, for a scope with a
\* parent, the result of findGlobalScope.
C27_GlobalScopeOfStrictTree ==
    called = "findGlobalScope" =>
        \A scope \in DOMAIN scopes :
            /\ result[scope].global \in DOMAIN scopes
            /\ scopes[result[scope].global].parentScope = undefined
            /\ result[scope].global = ParentChain(scope)[Len(ParentChain(scope))]
            /\ result[scope].again = result[scope].global
            /\ result[scope].parents = Tail(ParentChain(scope))
            /\ scopes[scope].parentScope # undefined =>
                /\ result[scope].global = result[scopes[scope].parentScope].global
                /\ result[scope].global =
                        result[scope].parents[Len(result[scope].parents)]

\* a scope two levels under its root
C27_Witness ==
    /\ called = "findGlobalScope"
    /\ \E scope \in DOMAIN scopes :
        /\ Len(result[scope].parents) = 2
        /\ result[scope].global = result[scope].parents[2]
        /\ result[scope].global # scopes[scope].parentScope

----------------------------------------------------------------------------
(* Properties of the expression nodes *)

\* the operator of every EXPR node of the chain from node is present exactly
\* when its tail is
RECURSIVE ExprWellFormed(_)
ExprWellFormed(node) ==
    /\ (node.exprop = Null) <=> (node.tail = Null)
    /\ node.tail # Null => ExprWellFormed(node.tail)

RECURSIVE AssignWellFormed(_)
AssignWellFormed(node) ==
    /\ (node.op = Null) <=> (node.assign = Null)
    /\ ExprWellFormed(node.condition.expr)
    /\ node.assign # Null => AssignWellFormed(node.assign)

\* C24: every EXPR node parseEXPR builds and every ASSIGN node parseASSIGN
\* builds has its operator present if and only if its right operand is
\* present, whatever the tokens, an operator as the last token or before a
\* token that starts no term included.
C24_OperatorIffRightOperand ==
    /\ (called = "parseEXPR" /\ ~diverged /\ result # Null) => ExprWellFormed(result)
    /\ (called = "parseASSIGN" /\ ~diverged /\ result # Null) => AssignWellFormed(result)

----------------------------------------------------------------------------
(* Properties of the operator candidates *)

\* the flags the registry holds for the word offered
OfferedWord == reservedWordProperties[OrigTokens[1].text]

\* C25: for every registered mark and keyword the candidate lists of the
\* parser agree with the flags of the registry: parseEXPROP accepts the word
\* iff it is flagged as a math, comparison, logic or bit operator,
\* parseASSIGNOP iff it is flagged as an assignment operator, and
\* parseEXPRTERM2 takes it as a prefix operator iff it is flagged as one.
C25_CandidatesAgreeWithRegistry ==
    /\ called = "parseEXPROP" =>
        ((result # Null) <=>
            (\/ OfferedWord.isMathOp
             \/ OfferedWord.isCompOp
             \/ OfferedWord.isLogicOp
             \/ OfferedWord.isBitOp))
    /\ called = "parseASSIGNOP" => ((result # Null) <=> OfferedWord.isAssignOp)
    /\ called = "parseEXPRTERM2" =>
        ((result # Null /\ tokens[1].highlight = "Operator") <=> OfferedWord.isExprPreOp)

\* the bit operator `>>>` accepted by parseEXPROP
C25_Witness ==
    /\ called = "parseEXPROP"
    /\ OrigTokens[1].text = ">>>"
    /\ OfferedWord.isBitOp
    /\ result = TokenRef(1)
    /\ tokens[1].highlight = "Operator"

----------------------------------------------------------------------------
(* Properties of the registry's initialisation *)

CategorySets ==
    [isExprPreOp |-> exprPreOpSet, isBitOp |-> bitOpSet, isMathOp |-> mathOpSet,
     isCompOp |-> compOpSet, isLogicOp |-> logicOpSet, isAssignOp |-> assignOpSet,
     isNumber |-> numberTypeSet, isPrimeType |-> primeTypeSet]

RegisteredWords == Elements(reservedMarkArray) \cup Elements(reservedKeywordArray)

\* C26: the initialisation of the registry is total and exact: every member
\* of every category set is a registered mark or keyword, so that
\* createProperties meets no missing entry; afterwards there is a record for
\* every registered word, each flag of it true iff the word is in the set of
\* that flag, and a word flagged as a number type is flagged as a prime type;
\* a keyword looked up is given its own record.
C26_RegistryTotalAndExact ==
    /\ \A flag \in DOMAIN CategorySets : CategorySets[flag] \subseteq RegisteredWords
    /\ reservedWordProperties # TypeError
    /\ DOMAIN reservedWordProperties = RegisteredWords
    /\ \A word \in RegisteredWords :
        /\ \A flag \in DOMAIN CategorySets :
                reservedWordProperties[word][flag] <=> word \in CategorySets[flag]
        /\ reservedWordProperties[word].isNumber
                => reservedWordProperties[word].isPrimeType
    /\ called = "findReservedKeywordProperty" =>
        IF args[1] \in Elements(reservedKeywordArray)
        THEN result.found /\ result.value = args[1]
        ELSE ~result.found

\* the record of int, a number type and a prime type, looked up as a keyword
C26_Witness ==
    /\ called = "findReservedKeywordProperty"
    /\ args = <<"int">>
    /\ result.found
    /\ reservedWordProperties[result.value].isNumber
    /\ reservedWordProperties[result.value].isPrimeType
    /\ ~reservedWordProperties[result.value].isMathOp

====
